---- MODULE Spec2Model ----
(***************************************************************************)
(* A model of the jobzee agents: the agent-to-agent message protocol       *)
(* (common/a2a_protocol.py), the matching pipeline and its scoring engine  *)
(* (job_finder_agent/workflows/match_jobs.py) and the candidate analysis   *)
(* pipeline (candidate_finder_agent/workflows/analyze_candidates.py).      *)
(*                                                                         *)
(* Python values are modelled with one TLA+ type per field.  A str field   *)
(* holds a TLA+ string, with the sentinels Missing (the key is not in the  *)
(* dict) and None (the Python None).  Scores are exact decimals, kept as   *)
(* integers in units of 1/Scale; the code computes them in binary floating *)
(* point.                                                                  *)
(***************************************************************************)
EXTENDS Integers, Sequences, FiniteSets, TLC

VARIABLES
    \* ---- AgentToAgentProtocol (a2a_protocol.py)
    agent_id,          \* self.agent_id
    message_handlers,  \* self.message_handlers: MessageType -> handler
    message_data,      \* the raw envelope dict handed to process_message
    proc_result,       \* what the last process_message call did
    \* ---- Message wire form (Message.to_dict / Message.from_dict)
    wire_msg,          \* a Message object
    wire_data,         \* its to_dict() form
    wire_back,         \* from_dict of that form
    wire_pc,
    \* ---- one call of the Scoring Engine (match_jobs.py)
    sc_call,           \* the arguments: candidate_profile, job_data, skills_match
    sc_ret,            \* what the call returned
    \* ---- one run of a workflow graph (match_jobs.py, analyze_candidates.py)
    run_kind,          \* "matching" or "analysis"
    pc,                \* the node to run next; "END"; "raised" if an exception left the graph
    state,             \* the MatchingState / AnalysisState object
    steps,             \* the nodes run so far, in order
    errors,            \* every error text a stage has recorded in this run, in order
    sent,              \* the envelopes published on the transport
    received,          \* the object the last stage was called with: before and after the call
    result,            \* what run_job_matching / run_candidate_analysis returned
    tool_responses,    \* what the tool calls of the last analyze_portfolio returned, per link
    \* ---- concurrent runs of run_job_matching on one event loop
    runs,              \* run id -> the run's position, state object, locals and result
    \* ---- one call on the sending side of the protocol (a2a_protocol.py)
    send_call,         \* the helper called, its arguments and what the transport does
    send_ret,          \* what the call returned
    \* ---- the preference-collection conversation (collect_preferences.py)
    cand_state,        \* the CandidateState object
    cand_call,         \* the last process_answer call: the answer, the state before, the call depth reached
    \* ---- the application processor (job_finder_agent/workflows/apply_jobs.py)
    producer,          \* self.producer: None until a connection was made
    topic,             \* the records published to applications_topic, in order
    apply_call,        \* the last process_job_matches call: its arguments and what the broker did
    apply_ret          \* what that call returned

proto_vars == <<agent_id, message_handlers, message_data, proc_result>>
wire_vars == <<wire_msg, wire_data, wire_back, wire_pc>>
score_vars == <<sc_call, sc_ret>>
run_vars ==
    <<run_kind, pc, state, steps, errors, sent, received, result, tool_responses>>
send_vars == <<send_call, send_ret>>
collect_vars == <<cand_state, cand_call>>
apply_vars == <<producer, topic, apply_call, apply_ret>>
vars ==
    <<proto_vars, wire_vars, score_vars, run_vars, runs, send_vars, collect_vars, apply_vars>>

-----------------------------------------------------------------------------
(* Python values *)

Missing == "<missing>"
None == "<None>"

\* a dict-valued field: kind is "dict", "none" (Python None) or "missing"
Dict(items) == [kind |-> "dict", items |-> items]
NoneDict == [kind |-> "none", items |-> {}]
MissingDict == [kind |-> "missing", items |-> {}]
EmptyDict == Dict({})

-----------------------------------------------------------------------------
(* MessageType: the enum members (by name) and their string values *)

MessageTypeValue ==
    [ JOB_CREATED |-> "job_created", JOB_UPDATED |-> "job_updated",
      JOB_DELETED |-> "job_deleted",
      CANDIDATE_CREATED |-> "candidate_created",
      CANDIDATE_UPDATED |-> "candidate_updated",
      CANDIDATE_DELETED |-> "candidate_deleted",
      APPLICATION_CREATED |-> "application_created",
      APPLICATION_UPDATED |-> "application_updated",
      APPLICATION_DELETED |-> "application_deleted",
      MATCH_REQUEST |-> "match_request", MATCH_RESPONSE |-> "match_response",
      MATCH_FOUND |-> "match_found",
      AGENT_HEARTBEAT |-> "agent_heartbeat", AGENT_STATUS |-> "agent_status",
      AGENT_ERROR |-> "agent_error" ]

MessageType == DOMAIN MessageTypeValue

\* MessageType(v): the member whose value is v; a member is returned as it is;
\* anything else is a ValueError, given here as None
MessageTypeOf(v) ==
    IF v \in MessageType THEN v
    ELSE IF \E t \in MessageType : MessageTypeValue[t] = v
         THEN CHOOSE t \in MessageType : MessageTypeValue[t] = v
         ELSE None

-----------------------------------------------------------------------------
(* datetime and its ISO-8601 text *)

\* a datetime object: whole seconds, microsecond, utc offset ("naive" if none)
DateTime(secs, micro, tz) ==
    [kind |-> "datetime", secs |-> secs, micro |-> micro, tz |-> tz]

\* an ISO-8601 text: the seconds part, the fraction (-1 when the text has
\* none) and the offset suffix ("" when the text has none)
IsoText(secs, frac, off) ==
    [kind |-> "str", secs |-> secs, frac |-> frac, off |-> off]

\* a str that is not ISO-8601, and a missing key
GarbageText == [kind |-> "str", secs |-> -1, frac |-> -1, off |-> "?"]
MissingTime == [kind |-> "missing", secs |-> -1, frac |-> -1, off |-> ""]

\* datetime.isoformat(): the fraction is printed only when microsecond # 0,
\* the offset only for an aware datetime
isoformat_seconds(dt) == IsoText(dt.secs, -1, IF dt.tz = "naive" THEN "" ELSE dt.tz)

isoformat(dt) ==
    IsoText(dt.secs,
            IF dt.micro = 0 THEN -1 ELSE dt.micro,
            IF dt.tz = "naive" THEN "" ELSE dt.tz)

\* datetime.fromisoformat(s): [ok, value]; a non-str argument is a TypeError
\* and a str that is not ISO-8601 a ValueError
fromisoformat(s) ==
    IF s.kind # "str" \/ s.secs < 0
    THEN [ok |-> FALSE, value |-> s]
    ELSE [ok |-> TRUE,
          value |-> DateTime(s.secs,
                             IF s.frac = -1 THEN 0 ELSE s.frac,
                             IF s.off = "" THEN "naive" ELSE s.off)]

-----------------------------------------------------------------------------
(* Message *)

Message(id, type, sender, receiver, ts, payload, metadata) ==
    [message_id |-> id, message_type |-> type, sender_id |-> sender,
     receiver_id |-> receiver, timestamp |-> ts, payload |-> payload,
     metadata |-> metadata]

\* Message.to_dict: asdict copies the fields, then the type becomes its value
\* and the timestamp its ISO text.  extra_key: the dict has a key that is no
\* field of Message.
to_dict(m) ==
    [message_id |-> m.message_id,
     message_type |-> MessageTypeValue[m.message_type],
     sender_id |-> m.sender_id,
     receiver_id |-> m.receiver_id,
     timestamp |-> isoformat(m.timestamp),
     payload |-> m.payload,
     metadata |-> m.metadata,
     extra_key |-> FALSE]

\* Message.__post_init__ on the decoded fields (timestamp is set by then)
post_init(d) ==
    Message(d.message_id, d.message_type, d.sender_id,
            IF d.receiver_id = Missing THEN None ELSE d.receiver_id,
            d.timestamp,
            IF d.payload.kind = "dict" THEN d.payload ELSE EmptyDict,
            IF d.metadata.kind = "dict" THEN d.metadata ELSE EmptyDict)

\* Message.from_dict(data): [ok, data, message].  The two assignments write
\* into the caller's dict: data is the dict as the call leaves it.  ok is
\* FALSE when the call raises (KeyError, ValueError, TypeError).
from_dict(data) ==
    LET t == MessageTypeOf(data.message_type)
        d1 == [data EXCEPT !.message_type = t]
        ts == fromisoformat(d1.timestamp)
        d2 == [d1 EXCEPT !.timestamp = ts.value]
    IN  IF data.message_type = Missing \/ t = None
        THEN [ok |-> FALSE, data |-> data, message |-> data]
        ELSE IF d1.timestamp.kind = "missing" \/ ~ts.ok
        THEN [ok |-> FALSE, data |-> d1, message |-> d1]
        ELSE IF d2.extra_key \/ d2.message_id = Missing \/ d2.sender_id = Missing
        THEN [ok |-> FALSE, data |-> d2, message |-> d2]
        ELSE [ok |-> TRUE, data |-> d2, message |-> post_init(d2)]

-----------------------------------------------------------------------------
(* AgentToAgentProtocol *)

Agents == {"A", "B"}

NoHandler == "<none>"
UserHandlers == {"user_ok", "user_raises"}

\* __init__ and _register_default_handlers: the registry after construction
DefaultHandlers ==
    [t \in MessageType |->
        CASE t = "AGENT_HEARTBEAT" -> "_handle_heartbeat"
          [] t = "AGENT_STATUS" -> "_handle_status"
          [] t = "AGENT_ERROR" -> "_handle_error"
          [] OTHER -> NoHandler]

HandlerRaises_unlessUser(h) == h # "user_ok"

\* await handler(message): the default handlers only log; a handler supplied by
\* the owning agent may raise
HandlerRaises(h) == h = "user_raises"

\* what one process_message call does: the value returned, whether an
\* exception left the call, the handlers invoked, and the registry afterwards
Outcome(ret, raised, invoked, handlers) ==
    [ret |-> ret, raised |-> raised, invoked |-> invoked, handlers |-> handlers]

\* line 205: the message names a receiver and it is not this agent
NotForThisAgent_off(aid, message) == FALSE

NotForThisAgent(aid, message) ==
    /\ message.receiver_id \notin {None, ""}
    /\ message.receiver_id # aid

\* lines 210-217: look the handler up and await it
Dispatch_missTrue(hs, message) ==
    LET handler == hs[message.message_type]
    IN  IF handler # NoHandler
        THEN Outcome(TRUE, HandlerRaises(handler), <<handler>>, hs)
        ELSE Outcome(TRUE, FALSE, <<>>, hs)

Dispatch(hs, message) ==
    LET handler == hs[message.message_type]
    IN  IF handler # NoHandler
        THEN Outcome(TRUE, HandlerRaises(handler), <<handler>>, hs)
        ELSE Outcome(FALSE, FALSE, <<>>, hs)

\* lines 219-221: except Exception: log and return False
CatchAll_off(o) == o

CatchAll(o) == IF o.raised THEN [o EXCEPT !.ret = FALSE, !.raised = FALSE] ELSE o

\* process_message(message_data): [out, data], data being the caller's dict
\* as from_dict left it
process_message(hs, aid, data) ==
    LET dec == from_dict(data)
        body == IF ~dec.ok THEN Outcome(FALSE, TRUE, <<>>, hs)
                ELSE IF NotForThisAgent(aid, dec.message)
                     THEN Outcome(FALSE, FALSE, <<>>, hs)
                     ELSE Dispatch(hs, dec.message)
    IN  [out |-> CatchAll(body), data |-> dec.data]

-----------------------------------------------------------------------------
(* the envelopes that reach process_message *)

MaxUserHandlers == 1

ProtoTime == DateTime(10, 0, "naive")

ProtoMessages ==
    { Message("m1", t, "peer", r, ProtoTime, EmptyDict, EmptyDict) :
        t \in MessageType, r \in {None, ""} \cup Agents }

Defects ==
    {"no_id", "no_type", "bad_type", "type_is_member", "no_sender",
     "no_receiver", "no_timestamp", "bad_timestamp", "timestamp_is_datetime",
     "null_payload", "no_metadata", "extra_key"}

Defect(d, how) ==
    CASE how = "no_id" -> [d EXCEPT !.message_id = Missing]
      [] how = "no_type" -> [d EXCEPT !.message_type = Missing]
      [] how = "bad_type" -> [d EXCEPT !.message_type = "job_search_request"]
      [] how = "type_is_member" ->
            [d EXCEPT !.message_type = MessageTypeOf(d.message_type)]
      [] how = "no_sender" -> [d EXCEPT !.sender_id = Missing]
      [] how = "no_receiver" -> [d EXCEPT !.receiver_id = Missing]
      [] how = "no_timestamp" -> [d EXCEPT !.timestamp = MissingTime]
      [] how = "bad_timestamp" -> [d EXCEPT !.timestamp = GarbageText]
      [] how = "timestamp_is_datetime" -> [d EXCEPT !.timestamp = ProtoTime]
      [] how = "null_payload" -> [d EXCEPT !.payload = NoneDict]
      [] how = "no_metadata" -> [d EXCEPT !.metadata = MissingDict]
      [] how = "extra_key" -> [d EXCEPT !.extra_key = TRUE]

DefectBases ==
    { m \in ProtoMessages : m.message_type \in {"JOB_CREATED", "AGENT_STATUS"} }

Envelopes ==
    { to_dict(m) : m \in ProtoMessages }
    \cup { Defect(to_dict(m), how) : m \in DefectBases, how \in Defects }

\* the types the owning agent registers handlers for
RegisteredTypes == {"JOB_CREATED", "MATCH_REQUEST", "AGENT_HEARTBEAT"}

NoData == [kind |-> "nothing"]
NoResult == [called |-> FALSE]

ProtoInit ==
    /\ agent_id \in Agents
    /\ message_handlers = DefaultHandlers
    /\ message_data = NoData
    /\ proc_result = NoResult
    /\ wire_msg = NoData /\ wire_data = NoData /\ wire_back = NoData
    /\ wire_pc = "idle"
    /\ sc_call = NoData /\ sc_ret = NoData
    /\ run_kind = "idle" /\ pc = "idle" /\ state = NoData /\ steps = <<>>
    /\ errors = <<>> /\ sent = <<>> /\ received = NoData /\ result = NoData
    /\ tool_responses = <<>>
    /\ runs = <<>>
    /\ producer = None /\ topic = <<>> /\ apply_call = NoData /\ apply_ret = NoData
    /\ cand_state = NoData /\ cand_call = NoData
    /\ send_call = NoData /\ send_ret = NoData

\* register_handler(message_type, handler)
RegisterHandler ==
    \E t \in RegisteredTypes, h \in UserHandlers :
        /\ Cardinality({u \in MessageType :
                          message_handlers[u] \in UserHandlers /\ u # t})
             < MaxUserHandlers
        /\ message_handlers' = [message_handlers EXCEPT ![t] = h]
        /\ proc_result' = NoResult
        /\ UNCHANGED <<agent_id, message_data>>

\* the transport yields an envelope
Receive ==
    \E d \in Envelopes :
        /\ message_data' = d
        /\ proc_result' = NoResult
        /\ UNCHANGED <<agent_id, message_handlers>>

\* process_message on the envelope at hand (again on the same dict object when
\* the transport redelivers it)
ProcessMessage ==
    /\ message_data # NoData
    /\ LET r == process_message(message_handlers, agent_id, message_data)
       IN  /\ message_data' = r.data
           /\ message_handlers' = r.out.handlers
           /\ proc_result' = [called |-> TRUE, input |-> message_data,
                              handlers_before |-> message_handlers,
                              ret |-> r.out.ret, raised |-> r.out.raised,
                              invoked |-> r.out.invoked]
    /\ UNCHANGED agent_id

ProtoNext ==
    \/ RegisterHandler /\ UNCHANGED <<apply_vars, collect_vars, send_vars, wire_vars, score_vars, run_vars, runs>>
    \/ Receive /\ UNCHANGED <<apply_vars, collect_vars, send_vars, wire_vars, score_vars, run_vars, runs>>
    \/ ProcessMessage /\ UNCHANGED <<apply_vars, collect_vars, send_vars, wire_vars, score_vars, run_vars, runs>>

SpecProto == ProtoInit /\ [][ProtoNext]_vars

-----------------------------------------------------------------------------
(* the wire round trip: a Message, its to_dict form, and from_dict of it *)

WireTimes ==
    { DateTime(10, us, tz) : us \in {0, 500}, tz \in {"naive", "+00:00", "+05:30"} }

WireDicts == { EmptyDict, Dict({<<"status", "alive">>}) }

WireMessages ==
    { Message("m1", t, "A", r, ts, p, md) :
        t \in MessageType, r \in {None, "B"}, ts \in WireTimes,
        p \in WireDicts, md \in WireDicts }

WireInit ==
    /\ wire_msg \in WireMessages
    /\ wire_data = NoData
    /\ wire_back = NoData
    /\ wire_pc = "new"
    /\ agent_id = "A" /\ message_handlers = DefaultHandlers
    /\ message_data = NoData /\ proc_result = NoResult
    /\ sc_call = NoData /\ sc_ret = NoData
    /\ run_kind = "idle" /\ pc = "idle" /\ state = NoData /\ steps = <<>>
    /\ errors = <<>> /\ sent = <<>> /\ received = NoData /\ result = NoData
    /\ tool_responses = <<>>
    /\ runs = <<>>
    /\ producer = None /\ topic = <<>> /\ apply_call = NoData /\ apply_ret = NoData
    /\ cand_state = NoData /\ cand_call = NoData
    /\ send_call = NoData /\ send_ret = NoData

\* message_data = message.to_dict()
Encode ==
    /\ wire_pc = "new"
    /\ wire_data' = to_dict(wire_msg)
    /\ wire_pc' = "encoded"
    /\ UNCHANGED <<wire_msg, wire_back>>

\* message = Message.from_dict(message_data)
Decode ==
    /\ wire_pc = "encoded"
    /\ LET r == from_dict(wire_data)
       IN  /\ wire_data' = r.data
           /\ wire_back' = [ok |-> r.ok, message |-> r.message]
    /\ wire_pc' = "decoded"
    /\ UNCHANGED wire_msg

WireNext ==
    \/ Encode /\ UNCHANGED <<apply_vars, collect_vars, send_vars, proto_vars, score_vars, run_vars, runs>>
    \/ Decode /\ UNCHANGED <<apply_vars, collect_vars, send_vars, proto_vars, score_vars, run_vars, runs>>

SpecWire == WireInit /\ [][WireNext]_vars

-----------------------------------------------------------------------------
(* Python values of profile fields.  A str is a sequence of one-character   *)
(* strings; a list is a sequence of its items.                              *)

PyMissing == [kind |-> "missing", n |-> 0, s |-> <<>>]
PyNone == [kind |-> "none", n |-> 0, s |-> <<>>]
PyInt(n) == [kind |-> "int", n |-> n, s |-> <<>>]
PyBool(b) == [kind |-> "bool", n |-> IF b THEN 1 ELSE 0, s |-> <<>>]
PyStr(s) == [kind |-> "str", n |-> 0, s |-> s]
PyList(s) == [kind |-> "list", n |-> 0, s |-> s]

\* dict.get(key, default)
get(v, default) == IF v.kind = "missing" THEN default ELSE v

\* bool(v)
Truthy(v) ==
    CASE v.kind \in {"missing", "none"} -> FALSE
      [] v.kind \in {"int", "bool"} -> v.n # 0
      [] OTHER -> Len(v.s) > 0

Range(seq) == { seq[i] : i \in DOMAIN seq }

LowerChar(c) ==
    CASE c = "N" -> "n" [] c = "Y" -> "y" [] c = "C" -> "c" [] c = "S" -> "s"
      [] c = "F" -> "f" [] c = "M" -> "m" [] c = "I" -> "i" [] c = "D" -> "d"
      [] c = "L" -> "l" [] c = "E" -> "e" [] c = "A" -> "a" [] c = "R" -> "r"
      [] c = "O" -> "o" [] c = "T" -> "t"
      [] OTHER -> c

\* str.lower()
lower(s) == [i \in DOMAIN s |-> LowerChar(s[i])]

\* a in b, for two str
In(a, b) ==
    \E i \in 0..(Len(b) - Len(a)) : SubSeq(b, i + 1, i + Len(a)) = a

Digits == {"0", "1", "2", "3", "4", "5", "6", "7", "8", "9"}

DigitValue(c) ==
    CASE c = "0" -> 0 [] c = "1" -> 1 [] c = "2" -> 2 [] c = "3" -> 3
      [] c = "4" -> 4 [] c = "5" -> 5 [] c = "6" -> 6 [] c = "7" -> 7
      [] c = "8" -> 8 [] c = "9" -> 9

\* [int(x) for x in re.findall(r'\d+', s)]: the maximal runs of digits, left
\* to right.  cur is the run being read (-1 when none).
RECURSIVE FindNumbers(_, _, _)
FindNumbers(s, i, cur) ==
    IF i > Len(s)
    THEN IF cur >= 0 THEN <<cur>> ELSE <<>>
    ELSE IF s[i] \in Digits
         THEN FindNumbers(s, i + 1,
                          (IF cur >= 0 THEN cur * 10 ELSE 0) + DigitValue(s[i]))
         ELSE (IF cur >= 0 THEN <<cur>> ELSE <<>>) \o FindNumbers(s, i + 1, -1)

RECURSIVE Sum(_)
Sum(seq) == IF seq = <<>> THEN 0 ELSE Head(seq) + Sum(Tail(seq))

-----------------------------------------------------------------------------
(* The Scoring Engine: JobMatcher._calculate_match_score *)

\* a score x is kept as the integer x * Scale
Scale == 240 * 100

\* the weights of lines 248-251, in tenths
WeightUnit == 10
SkillsWeight == 4
ExperienceWeight == 3
LocationWeight == 2
SalaryWeight == 1

Max(a, b) == IF a >= b THEN a ELSE b
Min(a, b) == IF a <= b THEN a ELSE b

Str_entry == <<"e", "n", "t", "r", "y">>
Str_junior == <<"j", "u", "n", "i", "o", "r">>
Str_mid == <<"m", "i", "d">>
Str_senior == <<"s", "e", "n", "i", "o", "r">>
Str_lead == <<"l", "e", "a", "d">>
Str_principal == <<"p", "r", "i", "n", "c", "i", "p", "a", "l">>

\* _extract_min_experience
extract_min_experience(experience_level) ==
    LET l == lower(experience_level)
    IN  CASE l = Str_entry -> 0 [] l = Str_junior -> 0 [] l = Str_mid -> 3
          [] l = Str_senior -> 5 [] l = Str_lead -> 8 [] l = Str_principal -> 12
          [] OTHER -> 0

\* _extract_max_experience
extract_max_experience(experience_level) ==
    LET l == lower(experience_level)
    IN  CASE l = Str_entry -> 2 [] l = Str_junior -> 2 [] l = Str_mid -> 5
          [] l = Str_senior -> 8 [] l = Str_lead -> 12 [] l = Str_principal -> 20
          [] OTHER -> 5

experience_score_step(years, lo, hi) ==
    IF lo <= years /\ years <= hi THEN Scale ELSE Scale - Scale

\* lines 222-227: the experience score for years against [lo, hi]
experience_score(years, lo, hi) ==
    IF lo <= years /\ years <= hi THEN Scale
    ELSE IF years < lo THEN Max(0, Scale - ((lo - years) * Scale) \div 5)
    ELSE Max(0, Scale - ((years - hi) * Scale) \div 5)

calculate_salary_match_strict(candidate_salary, job_salary) ==
    IF ~Truthy(candidate_salary) \/ ~Truthy(job_salary) THEN Scale - Scale
    ELSE Scale \div 2

\* _calculate_salary_match: 0.5 when either text is empty or has no number
\* (and when anything raises), else by the ratio of the averages
calculate_salary_match(candidate_salary, job_salary) ==
    IF ~Truthy(candidate_salary) \/ ~Truthy(job_salary) THEN Scale \div 2
    ELSE IF candidate_salary.kind # "str" \/ job_salary.kind # "str"
    THEN Scale \div 2
    ELSE LET cn == FindNumbers(candidate_salary.s, 1, -1)
             jn == FindNumbers(job_salary.s, 1, -1)
             \* candidate_avg / job_avg = c / j
             c == Sum(cn) * Len(jn)
             j == Sum(jn) * Len(cn)
         IN  IF cn = <<>> \/ jn = <<>> THEN Scale \div 2
             ELSE IF Sum(jn) > 0
             THEN IF 8 * j <= 10 * c /\ 10 * c <= 12 * j THEN Scale
                  ELSE IF 6 * j <= 10 * c /\ 10 * c <= 14 * j
                       THEN (7 * Scale) \div 10
                       ELSE (3 * Scale) \div 10
             ELSE Scale \div 2

\* line 254: min(1.0, max(0.0, total_score))
clamp_off(total) == total

clamp(total) == Min(Scale, Max(0, total))

skills_factor_full(job_skills, skills_match) ==
    IF job_skills = {} THEN Scale
    ELSE Len(skills_match) * (Scale \div Cardinality(job_skills))

\* lines 212-215: the skill factor, 0.0 for a job without skills
skills_factor(job_skills, skills_match) ==
    IF job_skills = {} THEN 0
    ELSE Len(skills_match) * (Scale \div Cardinality(job_skills))

location_factor_oneway(candidate_location, job_location, remote_preference, remote_friendly) ==
    IF In(candidate_location, job_location)
    THEN Scale
    ELSE IF Truthy(remote_preference) /\ Truthy(remote_friendly)
         THEN (8 * Scale) \div 10
         ELSE 0

\* lines 229-238: the location score of two lower-cased locations and the
\* two remote flags
location_factor(candidate_location, job_location, remote_preference, remote_friendly) ==
    IF In(candidate_location, job_location)
       \/ In(job_location, candidate_location)
    THEN Scale
    ELSE IF Truthy(remote_preference) /\ Truthy(remote_friendly)
         THEN (8 * Scale) \div 10
         ELSE 0

\* lines 206-244 of _calculate_match_score: the four factors, and whether the
\* body raises before it has them
match_factors(candidate_profile, job_data, skills_match) ==
    LET cskills == get(candidate_profile.skills, PyList(<<>>))
        jskills == get(job_data.skills, PyList(<<>>))
        years == get(candidate_profile.experience_years, PyInt(0))
        level == get(job_data.experience_level, PyStr(<<>>))
        cloc == get(candidate_profile.location, PyStr(<<>>))
        jloc == get(job_data.location, PyStr(<<>>))
        job_skills == Range(jskills.s)
        candidate_location == lower(cloc.s)
        job_location == lower(jloc.s)
    IN  [raises |->
            \/ cskills.kind # "list" \/ jskills.kind # "list"
            \/ level.kind # "str" \/ years.kind # "int"
            \/ cloc.kind # "str" \/ jloc.kind # "str",
         skills_score |-> skills_factor(job_skills, skills_match),
         exp_score |->
            experience_score(years.n, extract_min_experience(level.s),
                             extract_max_experience(level.s)),
         location_score |->
            location_factor(candidate_location, job_location,
                get(candidate_profile.remote_preference, PyBool(FALSE)),
                get(job_data.remote_friendly, PyBool(FALSE))),
         salary_score |->
            calculate_salary_match(
                get(candidate_profile.salary_expectation, PyStr(<<>>)),
                get(job_data.salary_range, PyStr(<<>>)))]

\* _calculate_match_score(candidate_profile, job_data, skills_match,
\* missing_skills); missing_skills is not read.  Returns the score; an
\* exception anywhere in the body returns 0.0.
calculate_match_score(candidate_profile, job_data, skills_match) ==
    LET f == match_factors(candidate_profile, job_data, skills_match)
        total_score ==
            (f.skills_score * SkillsWeight + f.exp_score * ExperienceWeight
             + f.location_score * LocationWeight + f.salary_score * SalaryWeight)
            \div WeightUnit
    IN  IF f.raises THEN 0 ELSE clamp(total_score)

\* list(a_set): the items in some order
RECURSIVE ListOf(_)
ListOf(set) ==
    IF set = {} THEN <<>>
    ELSE LET x == CHOOSE y \in set : TRUE IN <<x>> \o ListOf(set \ {x})

\* a JobMatch: the fields the workflow reads
JobMatch(job_id, match_score, skills_match, missing_skills) ==
    [job_id |-> job_id, match_score |-> match_score,
     skills_match |-> skills_match, missing_skills |-> missing_skills]

\* analyze_job_match(state, job_data): the JobMatch for one search result;
\* an exception in the body gives the JobMatch of lines 192-201
analyze_job_match(candidate_profile, job) ==
    LET cskills == get(candidate_profile.skills, PyList(<<>>))
        jskills == get(job.metadata.skills, PyList(<<>>))
        candidate_skills == Range(cskills.s)
        job_skills == Range(jskills.s)
        skills_match == ListOf(candidate_skills \cap job_skills)
        missing_skills == ListOf(job_skills \ candidate_skills)
        \* _generate_match_reasoning joins the two skill lists inside its own try
        raises == cskills.kind # "list" \/ jskills.kind # "list"
    IN  IF raises THEN JobMatch(job.id, 0, <<>>, <<>>)
        ELSE JobMatch(job.id,
                      calculate_match_score(candidate_profile, job.metadata,
                                            skills_match),
                      skills_match, missing_skills)

-----------------------------------------------------------------------------
(* the profiles the Scoring Engine is called with *)

MaxMatchLen == 3

Str_NY == <<"N", "Y">>
Str_nyc == <<"n", "y", "c">>
Str_SF == <<"S", "F">>

CandidateProfile(skills, years, location, remote, salary) ==
    [skills |-> skills, experience_years |-> years, location |-> location,
     remote_preference |-> remote, salary_expectation |-> salary]

JobData(skills, level, location, remote, salary) ==
    [skills |-> skills, experience_level |-> level, location |-> location,
     remote_friendly |-> remote, salary_range |-> salary]

EmptyProfile == CandidateProfile(PyMissing, PyMissing, PyMissing, PyMissing, PyMissing)

BaseCandidate ==
    CandidateProfile(PyList(<<"python", "django">>), PyInt(4), PyStr(Str_NY),
                     PyBool(FALSE), PyMissing)

BaseJob ==
    JobData(PyList(<<"python", "django", "aws">>), PyStr(Str_mid), PyStr(Str_nyc),
            PyBool(FALSE), PyMissing)

ScoredCandidates ==
    { CandidateProfile(sk, y, l, r, sal) :
        sk \in {PyList(<<"python", "django">>), PyList(<<>>),
                PyList(<<"Python", "aws">>)},
        y \in {PyInt(1), PyInt(4), PyInt(30), PyInt(-2)},
        l \in {PyStr(Str_NY), PyStr(Str_SF), PyMissing},
        r \in {PyBool(TRUE), PyMissing},
        sal \in {PyMissing, PyStr(<<"1", "0", "0">>), PyStr(<<"1", "5", "0">>)} }
    \cup { [BaseCandidate EXCEPT !.skills = PyNone],
           [BaseCandidate EXCEPT !.experience_years = PyNone],
           [BaseCandidate EXCEPT !.experience_years = PyStr(<<"3", " ", "y">>)],
           [BaseCandidate EXCEPT !.experience_years = PyInt(0)],
           [BaseCandidate EXCEPT !.experience_years = PyInt(3)],
           [BaseCandidate EXCEPT !.experience_years = PyInt(9)],
           [BaseCandidate EXCEPT !.experience_years = PyInt(13)],
           [BaseCandidate EXCEPT !.location = PyNone],
           [BaseCandidate EXCEPT !.location = PyStr(<<"S", "F", "O">>)],
           [BaseCandidate EXCEPT !.salary_expectation = PyInt(100)],
           [BaseCandidate EXCEPT !.salary_expectation = PyStr(<<"8", "8">>)],
           [BaseCandidate EXCEPT !.salary_expectation = PyStr(<<"1", "5", "4">>)],
           [BaseCandidate EXCEPT !.salary_expectation = PyStr(<<"6", "0">>)],
           [BaseCandidate EXCEPT !.salary_expectation = PyStr(<<"a", "s", "k">>)],
           EmptyProfile }

ScoredJobs ==
    { JobData(sk, lv, l, r, sal) :
        sk \in {PyList(<<"python", "django", "aws">>), PyMissing,
                PyList(<<"python">>)},
        lv \in {PyStr(Str_mid), PyStr(<<"S", "e", "n", "i", "o", "r">>),
                PyStr(<<"m", "i", "d", "-", "l", "e", "v", "e", "l">>), PyMissing},
        l \in {PyStr(Str_nyc), PyStr(Str_SF)},
        r \in {PyBool(TRUE), PyBool(FALSE)},
        sal \in {PyMissing, PyStr(<<"1", "0", "0", "-", "1", "2", "0">>),
                 PyStr(<<"$", "5", "0", "k">>)} }
    \cup { [BaseJob EXCEPT !.experience_level = PyStr(l)] :
            l \in {Str_entry, Str_junior, Str_senior, Str_lead, Str_principal} }
    \cup { [BaseJob EXCEPT !.skills = PyNone],
           [BaseJob EXCEPT !.skills = PyList(<<>>)],
           [BaseJob EXCEPT !.experience_level = PyNone],
           [BaseJob EXCEPT !.location = PyNone],
           [BaseJob EXCEPT !.location = PyMissing],
           [BaseJob EXCEPT !.location = PyStr(Str_SF)],
           [BaseJob EXCEPT !.salary_range = PyStr(<<"0">>)],
           [BaseJob EXCEPT !.salary_range =
               PyStr(<<"1", "0", "0", "-", "1", "2", "0">>)] }

\* a skills_match list of n items
SkillsMatchOfLen(n) == [i \in 1..n |-> "python"]

\* the weight fields of the MatchingState that analyze_job_match is called
\* with, in tenths: the defaults, and two caller-chosen sets that sum to 1.0
Weights(skills, experience, location, salary) ==
    [required_skills_weight |-> skills, experience_weight |-> experience,
     location_weight |-> location, salary_weight |-> salary]

StateWeights ==
    { Weights(SkillsWeight, ExperienceWeight, LocationWeight, SalaryWeight),
      Weights(1, 2, 3, 4), Weights(7, 1, 1, 1) }

ScoreInit ==
    /\ sc_call \in
         [candidate_profile : ScoredCandidates, job_data : ScoredJobs,
          skills_match : { SkillsMatchOfLen(n) : n \in {0, MaxMatchLen} },
          via : {"_calculate_match_score"}]
         \cup
         [candidate_profile : ScoredCandidates, job_data : ScoredJobs,
          skills_match : {<<>>}, via : {"analyze_job_match"},
          weights : StateWeights]
    /\ sc_ret = NoData
    /\ agent_id = "A" /\ message_handlers = DefaultHandlers
    /\ message_data = NoData /\ proc_result = NoResult
    /\ wire_msg = NoData /\ wire_data = NoData /\ wire_back = NoData
    /\ wire_pc = "idle"
    /\ run_kind = "idle" /\ pc = "idle" /\ state = NoData /\ steps = <<>>
    /\ errors = <<>> /\ sent = <<>> /\ received = NoData /\ result = NoData
    /\ tool_responses = <<>>
    /\ runs = <<>>
    /\ producer = None /\ topic = <<>> /\ apply_call = NoData /\ apply_ret = NoData
    /\ cand_state = NoData /\ cand_call = NoData
    /\ send_call = NoData /\ send_ret = NoData

\* a direct call of _calculate_match_score with the caller's skills_match
CallCalculateMatchScore ==
    /\ sc_ret = NoData
    /\ sc_call.via = "_calculate_match_score"
    /\ sc_ret' = JobMatch("", calculate_match_score(sc_call.candidate_profile,
                                                    sc_call.job_data,
                                                    sc_call.skills_match),
                          sc_call.skills_match, <<>>)
    /\ UNCHANGED sc_call

\* analyze_job_match(state, job_data), which computes skills_match and calls
\* it; of the state it reads candidate_profile only
CallAnalyzeJobMatch ==
    /\ sc_ret = NoData
    /\ sc_call.via = "analyze_job_match"
    /\ sc_ret' = analyze_job_match(sc_call.candidate_profile,
                                   [id |-> "job1", metadata |-> sc_call.job_data])
    /\ UNCHANGED sc_call

ScoreNext ==
    \/ CallCalculateMatchScore /\ UNCHANGED <<apply_vars, collect_vars, send_vars, proto_vars, wire_vars, run_vars, runs>>
    \/ CallAnalyzeJobMatch /\ UNCHANGED <<apply_vars, collect_vars, send_vars, proto_vars, wire_vars, run_vars, runs>>

SpecScore == ScoreInit /\ [][ScoreNext]_vars

-----------------------------------------------------------------------------
(* AgentToAgentProtocol: the sending side *)

\* a Message object has the method to_dict; any other argument (a plain dict)
\* has not, and message.to_dict() raises AttributeError
HasToDict(message) == "message_id" \in DOMAIN message

\* send_message(message): publish message.to_dict() on the transport; True,
\* or False when to_dict or the transport call raises.  [ret, published]
send_message(message, transport_ok) ==
    IF ~HasToDict(message)
    THEN [ret |-> FALSE, published |-> <<>>]
    ELSE IF transport_ok
    THEN [ret |-> TRUE, published |-> <<to_dict(message)>>]
    ELSE [ret |-> FALSE, published |-> <<>>]

\* MatchRequest(request_id, candidate_id=..., criteria=...)
MatchRequest(request_id, candidate_id, criteria) ==
    [request_id |-> request_id, job_id |-> None, candidate_id |-> candidate_id,
     criteria |-> criteria, priority |-> "normal"]

\* send_match_request(receiver_id, match_request)
send_match_request(aid, receiver_id, match_request, now, transport_ok) ==
    send_message(Message(match_request.request_id, "MATCH_REQUEST", aid,
                         receiver_id, now,
                         Dict({<<"match_request", match_request>>}), EmptyDict),
                 transport_ok)

\* MatchResponse(request_id, matches, confidence_scores)
MatchResponse(request_id, matches, confidence_scores) ==
    [request_id |-> request_id, matches |-> matches,
     confidence_scores |-> confidence_scores, reasoning |-> ""]

\* send_match_response(receiver_id, match_response)
send_match_response(aid, receiver_id, match_response, now, transport_ok) ==
    send_message(Message(<<"response_", match_response.request_id>>,
                         "MATCH_RESPONSE", aid, receiver_id, now,
                         Dict({<<"match_response", match_response>>}), EmptyDict),
                 transport_ok)

\* broadcast_message(message_type, payload): no receiver_id is given
broadcast_message(aid, message_type, payload, now, transport_ok) ==
    send_message(Message(<<aid, "_", now.secs>>, message_type, aid, None, now,
                         payload, EmptyDict),
                 transport_ok)

-----------------------------------------------------------------------------
(* The matching workflow: MatchingState and the four stages of JobMatcher *)

\* what a stage leaves: the state object it returns, the object it was called
\* with as it is after the call (every stage assigns to the attributes of its
\* parameter and returns that parameter, so the two are one object), the error
\* text it recorded ("" if none) and whether an exception left the stage
StageOut(st, error, propagated) ==
    [state |-> st, received |-> st, error |-> error, propagated |-> propagated]

\* except Exception as e: state.error_message = str(e), then return state
StageExcept_reraise(st, e) == StageOut(st, "", TRUE)

StageExcept(st, e) == StageOut([st EXCEPT !.error_message = e], e, FALSE)

\* the default criteria of MatchingState, scores in units of 1/Scale
DefaultMinMatchScore == (7 * Scale) \div 10
DefaultMaxMatches == 10

MatchingState(candidate_id, min_match_score, max_matches) ==
    [candidate_id |-> candidate_id, candidate_profile |-> EmptyProfile,
     available_jobs |-> <<>>, matches |-> <<>>, current_job_index |-> 0,
     is_complete |-> FALSE, error_message |-> "",
     min_match_score |-> min_match_score, max_matches |-> max_matches,
     required_skills_weight |-> SkillsWeight,
     experience_weight |-> ExperienceWeight,
     location_weight |-> LocationWeight, salary_weight |-> SalaryWeight]

\* load_candidate_profile(state); doc is what vector_db.get_document did:
\* a Document ("found"), None ("absent") or an exception ("raises")
load_candidate_profile(st, doc) ==
    CASE doc.kind = "found" ->
            StageOut([st EXCEPT !.candidate_profile = doc.metadata], "", FALSE)
      [] doc.kind = "absent" ->
            StageOut([st EXCEPT !.error_message = "Candidate profile not found"],
                     "Candidate profile not found", FALSE)
      [] doc.kind = "raises" -> StageExcept(st, "get_document failed")

\* search_available_jobs(state); found is what vector_db.search did: a list of
\* SearchResult ("ok") or an exception ("raises").  No search without a profile.
search_available_jobs(st, found) ==
    IF st.candidate_profile = EmptyProfile THEN StageOut(st, "", FALSE)
    ELSE IF found.kind = "raises" THEN StageExcept(st, "search failed")
    ELSE StageOut(
            [st EXCEPT !.available_jobs =
                [i \in DOMAIN found.results |->
                    [id |-> found.results[i].document_id,
                     metadata |-> found.results[i].metadata,
                     score |-> found.results[i].score]]],
            "", FALSE)

\* lines 377-385: the loop over available_jobs, from index i with the matches
\* collected so far
RECURSIVE CollectMatches(_, _, _)
CollectMatches(st, i, matches) ==
    IF i > Len(st.available_jobs) \/ Len(matches) >= st.max_matches
    THEN matches
    ELSE LET match == analyze_job_match(st.candidate_profile, st.available_jobs[i])
         IN  CollectMatches(st, i + 1,
                            IF match.match_score >= st.min_match_score
                            THEN Append(matches, match) ELSE matches)

\* insert m into a list sorted by descending match_score, after the items
\* that are not smaller: a stable sort
RECURSIVE InsertByScore_before(_, _)
InsertByScore_before(sorted, m) ==
    IF sorted = <<>> THEN <<m>>
    ELSE IF Head(sorted).match_score > m.match_score
         THEN <<Head(sorted)>> \o InsertByScore_before(Tail(sorted), m)
         ELSE <<m>> \o sorted

RECURSIVE InsertByScore(_, _)
InsertByScore(sorted, m) ==
    IF sorted = <<>> THEN <<m>>
    ELSE IF Head(sorted).match_score >= m.match_score
         THEN <<Head(sorted)>> \o InsertByScore(Tail(sorted), m)
         ELSE <<m>> \o sorted

\* matches.sort(key=lambda x: x.match_score, reverse=True)
RECURSIVE SortByScore(_)
SortByScore(matches) ==
    IF matches = <<>> THEN <<>>
    ELSE InsertByScore(SortByScore(SubSeq(matches, 1, Len(matches) - 1)),
                       matches[Len(matches)])

\* process_job_matches(state)
process_job_matches(st) ==
    StageOut([st EXCEPT !.matches = SortByScore(CollectMatches(st, 1, <<>>))],
             "", FALSE)

\* notify_candidate_finder(state): nothing without matches; else one match
\* request to the candidate finder, whose send result is not read.
\* [state, error, propagated, published]
notify_candidate_finder(st, aid, now, transport_ok) ==
    IF st.matches = <<>>
    THEN [out |-> StageOut(st, "", FALSE), published |-> <<>>]
    ELSE LET match_request ==
                MatchRequest(<<"match", st.candidate_id, Len(st.matches)>>,
                             st.candidate_id,
                             [min_match_score |-> st.min_match_score,
                              max_matches |-> st.max_matches,
                              candidate_profile |-> st.candidate_profile])
             r == send_match_request(aid, "candidate_finder_agent",
                                     match_request, now, transport_ok)
         IN  [out |-> StageOut(st, "", FALSE), published |-> r.published]

\* create_job_matching_graph: the entry point and the edges
MatchingEntry == "load_profile"

MatchingEdge_skip(node) ==
    CASE node = "load_profile" -> "process_matches"
      [] node = "search_jobs" -> "process_matches"
      [] node = "process_matches" -> "notify_finder"
      [] node = "notify_finder" -> "END"

MatchingEdge(node) ==
    CASE node = "load_profile" -> "search_jobs"
      [] node = "search_jobs" -> "process_matches"
      [] node = "process_matches" -> "notify_finder"
      [] node = "notify_finder" -> "END"

-----------------------------------------------------------------------------
(* run_job_matching: one run of the matching graph *)

MaxJobs == 3

\* Seq(S) restricted to the lists without repetition of at most n items
InjectiveSeqs(S, n) ==
    UNION { { q \in [1..k -> S] : \A i, j \in 1..k : q[i] = q[j] => i = j } :
            k \in 0..n }

\* the jobs collection: document id -> payload
Jobs ==
    [ j1 |-> BaseJob,
      j2 |-> [BaseJob EXCEPT !.skills = PyList(<<"python">>)],
      j3 |-> [BaseJob EXCEPT !.experience_level = PyStr(Str_senior),
                             !.location = PyStr(Str_SF)],
      j4 |-> BaseJob ]

\* a SearchResult; the similarity falls with the position in the list
SearchResult(document_id, position) ==
    [document_id |-> document_id, metadata |-> Jobs[document_id],
     score |-> Scale - position]

\* what vector_db.search gives the search stage
SearchOutcomes ==
    { [kind |-> "ok", results |-> [i \in DOMAIN q |-> SearchResult(q[i], i)]] :
        q \in InjectiveSeqs(DOMAIN Jobs, MaxJobs) }
    \cup { [kind |-> "raises", results |-> <<>>] }

\* what vector_db.get_document gives the load stage
CandidateDocs ==
    { [kind |-> "found", metadata |-> m] :
        m \in {BaseCandidate, EmptyProfile, [BaseCandidate EXCEPT !.skills = PyNone]} }
    \cup { [kind |-> k, metadata |-> EmptyProfile] : k \in {"absent", "raises"} }

\* matching_criteria: min_match_score and max_matches
MatchingCriteria ==
    { [min_match_score |-> m, max_matches |-> n] :
        m \in {DefaultMinMatchScore, Scale \div 2},
        n \in {1, 2, DefaultMaxMatches} }

\* one node of a graph has run: it is logged, its state is the run's state,
\* an error it recorded is logged, and the run moves along the node's edge
\* unless an exception left the node
NodeDone(node, out, next) ==
    /\ steps' = Append(steps, node)
    /\ state' = out.state
    /\ received' = [node |-> node, before |-> state, after |-> out.received]
    /\ errors' = IF out.error = "" THEN errors
                 ELSE Append(errors, [step |-> node, error |-> out.error])
    /\ pc' = IF out.propagated THEN "raised" ELSE next

PipeInit ==
    /\ agent_id = "A" /\ message_handlers = DefaultHandlers
    /\ message_data = NoData /\ proc_result = NoResult
    /\ wire_msg = NoData /\ wire_data = NoData /\ wire_back = NoData
    /\ wire_pc = "idle"
    /\ sc_call = NoData /\ sc_ret = NoData
    /\ run_kind = "idle" /\ pc = "idle" /\ state = NoData /\ steps = <<>>
    /\ errors = <<>> /\ sent = <<>> /\ received = NoData /\ result = NoData
    /\ tool_responses = <<>>
    /\ runs = <<>>
    /\ producer = None /\ topic = <<>> /\ apply_call = NoData /\ apply_ret = NoData
    /\ cand_state = NoData /\ cand_call = NoData
    /\ send_call = NoData /\ send_ret = NoData

\* run_job_matching(candidate_id, matching_criteria) up to graph.ainvoke
RunJobMatching ==
    /\ pc = "idle"
    /\ \E c \in MatchingCriteria :
          state' = MatchingState("c1", c.min_match_score, c.max_matches)
    /\ run_kind' = "matching"
    /\ pc' = MatchingEntry
    /\ UNCHANGED <<steps, errors, sent, received, result, tool_responses>>

LoadProfile ==
    /\ run_kind = "matching" /\ pc = "load_profile"
    /\ \E doc \in CandidateDocs :
          NodeDone("load_profile", load_candidate_profile(state, doc),
                   MatchingEdge("load_profile"))
    /\ UNCHANGED <<run_kind, sent, result, tool_responses>>

SearchJobs ==
    /\ run_kind = "matching" /\ pc = "search_jobs"
    /\ \E found \in SearchOutcomes :
          NodeDone("search_jobs", search_available_jobs(state, found),
                   MatchingEdge("search_jobs"))
    /\ UNCHANGED <<run_kind, sent, result, tool_responses>>

ProcessMatches ==
    /\ run_kind = "matching" /\ pc = "process_matches"
    /\ NodeDone("process_matches", process_job_matches(state),
                MatchingEdge("process_matches"))
    /\ UNCHANGED <<run_kind, sent, result, tool_responses>>

NotifyFinder ==
    /\ run_kind = "matching" /\ pc = "notify_finder"
    /\ \E transport_ok \in BOOLEAN :
          LET r == notify_candidate_finder(state, "job_finder_agent", ProtoTime,
                                           transport_ok)
          IN  /\ NodeDone("notify_finder", r.out, MatchingEdge("notify_finder"))
              /\ sent' = sent \o r.published
    /\ UNCHANGED <<run_kind, result, tool_responses>>

\* run_job_matching after graph.ainvoke: the result dict
ReturnJobMatching ==
    /\ run_kind = "matching" /\ pc \in {"END", "raised"}
    /\ result' = IF pc = "END"
                 THEN [success |-> TRUE, matches |-> state.matches,
                       total_matches |-> Len(state.matches)]
                 ELSE [success |-> FALSE, matches |-> <<>>, total_matches |-> 0]
    /\ pc' = "done"
    /\ UNCHANGED <<run_kind, state, steps, errors, sent, received, tool_responses>>

-----------------------------------------------------------------------------
(* The analysis workflow: AnalysisState and the six stages of
   CandidateAnalyzer.  Scores are in units of 1/Scale.  Of the analysis dicts
   the model keeps the keys that a later stage or the result reads; the texts
   (recommendations, risk factors, interview questions, strengths and
   weaknesses) and work_experience are left out. *)

\* the candidate payload and the job_requirements dict of this workflow
AnalysisProfile(skills, years, location, remote, portfolio_links) ==
    [skills |-> skills, experience_years |-> years, location |-> location,
     remote_preference |-> remote, portfolio_links |-> portfolio_links]

JobRequirements(skills, level, location, remote) ==
    [skills |-> skills, experience_level |-> level, location |-> location,
     remote_friendly |-> remote]

EmptyAnalysisProfile ==
    AnalysisProfile(PyMissing, PyMissing, PyMissing, PyMissing, PyMissing)

EmptyRequirements == JobRequirements(PyMissing, PyMissing, PyMissing, PyMissing)

\* the analysis dicts; empty is TRUE for {}
SkillsAnalysis(empty, matching_skills, missing_skills, skill_coverage, score) ==
    [empty |-> empty, matching_skills |-> matching_skills,
     missing_skills |-> missing_skills, skill_coverage |-> skill_coverage,
     overall_skill_score |-> score]

ExperienceAnalysis(empty, years, fit_score, assessment) ==
    [empty |-> empty, candidate_experience_years |-> years,
     experience_fit_score |-> fit_score, experience_assessment |-> assessment]

\* one entry of detailed_analysis; present is FALSE when the key is not there
PlatformAnalysis(present, score) == [present |-> present, score |-> score]

NoPlatforms ==
    [github |-> PlatformAnalysis(FALSE, 0), linkedin |-> PlatformAnalysis(FALSE, 0),
     resume |-> PlatformAnalysis(FALSE, 0)]

PortfolioAnalysis(empty, detailed_analysis, score) ==
    [empty |-> empty, detailed_analysis |-> detailed_analysis,
     overall_portfolio_score |-> score]

CulturalFitAnalysis(empty, score, experience_alignment, remote_match, location_ok) ==
    [empty |-> empty, cultural_fit_score |-> score,
     experience_alignment |-> experience_alignment,
     remote_preference_match |-> remote_match,
     location_compatibility |-> location_ok]

AnalysisResults(empty, overall, skill, experience, portfolio, cultural, summary) ==
    [empty |-> empty, overall_score |-> overall, skill_score |-> skill,
     experience_score |-> experience, portfolio_score |-> portfolio,
     cultural_score |-> cultural, assessment_summary |-> summary]

AnalysisState(candidate_id, job_requirements) ==
    [candidate_id |-> candidate_id, job_requirements |-> job_requirements,
     candidate_profile |-> EmptyAnalysisProfile,
     analysis_results |-> AnalysisResults(TRUE, 0, 0, 0, 0, 0, ""),
     current_step |-> "load_profile", is_complete |-> FALSE,
     error_message |-> "",
     skills_analysis |-> SkillsAnalysis(TRUE, <<>>, <<>>, 0, 0),
     experience_analysis |-> ExperienceAnalysis(TRUE, 0, 0, ""),
     portfolio_analysis |-> PortfolioAnalysis(TRUE, NoPlatforms, 0),
     cultural_fit_analysis |-> CulturalFitAnalysis(TRUE, 0, FALSE, FALSE, FALSE)]

\* CandidateAnalyzer.load_candidate_profile(state); doc as for the matcher
analyzer_load_candidate_profile(st, doc) ==
    CASE doc.kind = "found" ->
            StageOut([st EXCEPT !.candidate_profile = doc.metadata], "", FALSE)
      [] doc.kind = "absent" ->
            StageOut([st EXCEPT !.error_message = "Candidate profile not found"],
                     "Candidate profile not found", FALSE)
      [] doc.kind = "raises" -> StageExcept(st, "get_document failed")

\* analyze_skills(state)
analyze_skills(st) ==
    LET cskills == get(st.candidate_profile.skills, PyList(<<>>))
        rskills == get(st.job_requirements.skills, PyList(<<>>))
        candidate_skills == Range(cskills.s)
        required_skills == Range(rskills.s)
        matching_skills == ListOf(candidate_skills \cap required_skills)
        missing_skills == ListOf(required_skills \ candidate_skills)
        skill_coverage ==
            IF required_skills = {} THEN 0
            ELSE (Len(matching_skills) * Scale) \div Cardinality(required_skills)
    IN  IF cskills.kind # "list" \/ rskills.kind # "list"
        THEN StageExcept(st, "'NoneType' object is not iterable")
        ELSE StageOut(
                [st EXCEPT !.skills_analysis =
                    SkillsAnalysis(FALSE, matching_skills, missing_skills,
                                   skill_coverage,
                                   Min(Scale, (skill_coverage * 12) \div 10))],
                "", FALSE)

\* analyze_experience(state); _extract_min_experience and
\* _extract_max_experience of this class are those of the matcher
analyze_experience(st) ==
    LET years == get(st.candidate_profile.experience_years, PyInt(0))
        level == get(st.job_requirements.experience_level, PyStr(<<>>))
        lo == extract_min_experience(level.s)
        hi == extract_max_experience(level.s)
        assessment ==
            IF lo <= years.n /\ years.n <= hi THEN "excellent"
            ELSE IF years.n < lo THEN "below_required" ELSE "overqualified"
    IN  IF level.kind # "str"
        THEN StageExcept(st, "'NoneType' object has no attribute 'lower'")
        ELSE IF years.kind # "int"
        THEN StageExcept(st, "'<=' not supported between 'int' and 'NoneType'")
        ELSE StageOut(
                [st EXCEPT !.experience_analysis =
                    ExperienceAnalysis(FALSE, years.n,
                                       experience_score(years.n, lo, hi),
                                       assessment)],
                "", FALSE)

\* a portfolio link: the platform its text names ("github" when it contains
\* github.com, else "linkedin" when it contains linkedin.com, else "resume"
\* when it names a resume or ends in .pdf/.doc/.docx, else "other") and the
\* user or file it points to
Link(platform, target) == [platform |-> platform, target |-> target]

\* a ToolResponse: success with a result, or not; "raises" is the call raising
ToolResponse(kind, tool_result) == [kind |-> kind, result |-> tool_result]

\* the result of the GitHub tool and of the resume tool: the keys the rubrics read
GithubResult(repository_count, total_stars, recent_commits, languages) ==
    [repository_count |-> repository_count, total_stars |-> total_stars,
     recent_commits |-> recent_commits, languages |-> languages]

ResumeResult(experience_years, skills, degree, certifications) ==
    [experience_years |-> experience_years, skills |-> skills,
     degree |-> degree, certifications |-> certifications]

\* x hundredths of a full score
Hundredths(x) == (x * Scale) \div 100

\* _calculate_github_score; languages is the length of the list
calculate_github_score(g) ==
    Min(Scale,
        Hundredths((IF g.repository_count >= 10 THEN 30
                    ELSE IF g.repository_count >= 5 THEN 20
                    ELSE IF g.repository_count >= 2 THEN 10 ELSE 0)
                 + (IF g.total_stars >= 100 THEN 30
                    ELSE IF g.total_stars >= 20 THEN 20
                    ELSE IF g.total_stars >= 5 THEN 10 ELSE 0)
                 + (IF g.recent_commits >= 50 THEN 20
                    ELSE IF g.recent_commits >= 20 THEN 15
                    ELSE IF g.recent_commits >= 5 THEN 10 ELSE 0)
                 + (IF g.languages >= 3 THEN 20
                    ELSE IF g.languages >= 2 THEN 10 ELSE 0)))

\* _calculate_resume_score; skills and certifications are the lengths of the
\* lists, degree the highest degree word the education list holds
calculate_resume_score(r) ==
    Min(Scale,
        Hundredths((IF r.experience_years >= 5 THEN 30
                    ELSE IF r.experience_years >= 3 THEN 20
                    ELSE IF r.experience_years >= 1 THEN 10 ELSE 0)
                 + (IF r.skills >= 10 THEN 30
                    ELSE IF r.skills >= 5 THEN 20
                    ELSE IF r.skills >= 2 THEN 10 ELSE 0)
                 + (CASE r.degree = "phd" -> 20 [] r.degree = "master" -> 15
                      [] r.degree = "bachelor" -> 10 [] OTHER -> 0)
                 + (IF r.certifications >= 3 THEN 20
                    ELSE IF r.certifications >= 1 THEN 10 ELSE 0)))

\* lines 236-266: the loop over the links from index i; responses[i] is what
\* the tool call for link i gives.  [raised, detailed]
RECURSIVE AnalyzeLinks(_, _, _, _)
AnalyzeLinks(links, responses, i, detailed) ==
    IF i > Len(links) THEN [raised |-> FALSE, detailed |-> detailed]
    ELSE LET link == links[i]
             response == responses[i]
         IN  CASE link.platform = "github" ->
                    IF response.kind = "raises"
                    THEN [raised |-> TRUE, detailed |-> detailed]
                    ELSE AnalyzeLinks(links, responses, i + 1,
                            IF response.kind = "success"
                            THEN [detailed EXCEPT !.github =
                                    PlatformAnalysis(TRUE,
                                        calculate_github_score(response.result))]
                            ELSE detailed)
               [] link.platform = "linkedin" ->
                    AnalyzeLinks(links, responses, i + 1,
                        [detailed EXCEPT !.linkedin =
                            PlatformAnalysis(TRUE, Hundredths(70))])
               [] link.platform = "resume" ->
                    IF response.kind = "raises"
                    THEN [raised |-> TRUE, detailed |-> detailed]
                    ELSE AnalyzeLinks(links, responses, i + 1,
                            IF response.kind = "success"
                            THEN [detailed EXCEPT !.resume =
                                    PlatformAnalysis(TRUE,
                                        calculate_resume_score(response.result))]
                            ELSE detailed)
               [] OTHER -> AnalyzeLinks(links, responses, i + 1, detailed)

\* sum(scores) for the scores kept under keys
RECURSIVE SumOver(_, _)
SumOver(scores, keys) ==
    IF keys = {} THEN 0
    ELSE LET k == CHOOSE x \in keys : TRUE
         IN  scores[k] + SumOver(scores, keys \ {k})

\* analyze_portfolio(state)
analyze_portfolio(st, responses) ==
    LET portfolio_links == get(st.candidate_profile.portfolio_links, PyList(<<>>))
        r == AnalyzeLinks(portfolio_links.s, responses, 1, NoPlatforms)
        present == { k \in DOMAIN r.detailed : r.detailed[k].present }
        portfolio_scores == [k \in present |-> r.detailed[k].score]
        total == SumOver(portfolio_scores, present)
    IN  IF portfolio_links.kind # "list"
        THEN StageExcept(st, "'NoneType' object is not iterable")
        ELSE IF r.raised THEN StageExcept(st, "tool call failed")
        ELSE StageOut(
                [st EXCEPT !.portfolio_analysis =
                    PortfolioAnalysis(FALSE, r.detailed,
                        IF present = {} THEN 0
                        ELSE total \div Cardinality(present))],
                "", FALSE)

\* assess_cultural_fit(state)
assess_cultural_fit(st) ==
    LET years == get(st.candidate_profile.experience_years, PyInt(0))
        level == get(st.job_requirements.experience_level, PyStr(<<>>))
        required_exp == extract_min_experience(level.s)
        candidate_remote == get(st.candidate_profile.remote_preference, PyBool(FALSE))
        job_remote == get(st.job_requirements.remote_friendly, PyBool(FALSE))
        cloc == get(st.candidate_profile.location, PyStr(<<>>))
        jloc == get(st.job_requirements.location, PyStr(<<>>))
        candidate_location == lower(cloc.s)
        job_location == lower(jloc.s)
        experience_alignment == years.n >= required_exp
        remote_match == candidate_remote = job_remote
        location_ok == \/ In(candidate_location, job_location)
                       \/ In(job_location, candidate_location)
        cultural_fit_score ==
            Hundredths(70 + (IF experience_alignment THEN 10 ELSE 0)
                          + (IF remote_match THEN 10 ELSE 0)
                          + (IF location_ok THEN 10 ELSE 0))
    IN  IF level.kind # "str"
        THEN StageExcept(st, "'NoneType' object has no attribute 'lower'")
        ELSE IF years.kind # "int"
        THEN StageExcept(st, "'>=' not supported between 'NoneType' and 'int'")
        ELSE IF cloc.kind # "str" \/ jloc.kind # "str"
        THEN StageExcept(st, "'NoneType' object has no attribute 'lower'")
        ELSE StageOut(
                [st EXCEPT !.cultural_fit_analysis =
                    CulturalFitAnalysis(FALSE, Min(Scale, cultural_fit_score),
                                        experience_alignment, remote_match,
                                        location_ok)],
                "", FALSE)

\* _generate_assessment_summary: the band of the overall score
generate_assessment_summary(overall_score) ==
    IF overall_score >= Hundredths(80) THEN "Excellent candidate"
    ELSE IF overall_score >= Hundredths(60) THEN "Good candidate"
    ELSE IF overall_score >= Hundredths(40) THEN "Moderate candidate"
    ELSE "Candidate may not be the best fit"

generate_final_assessment_heavy(st) ==
    LET skill_score == IF st.skills_analysis.empty THEN 0
                       ELSE st.skills_analysis.overall_skill_score
        experience_score_ == IF st.experience_analysis.empty THEN 0
                             ELSE st.experience_analysis.experience_fit_score
        portfolio_score == IF st.portfolio_analysis.empty THEN 0
                           ELSE st.portfolio_analysis.overall_portfolio_score
        cultural_score == IF st.cultural_fit_analysis.empty THEN 0
                          ELSE st.cultural_fit_analysis.cultural_fit_score
        overall_score ==
            (skill_score * 35 + experience_score_ * 25 + portfolio_score * 25
             + cultural_score * 25) \div 100
    IN  StageOut(
            [st EXCEPT !.analysis_results =
                AnalysisResults(FALSE, overall_score, skill_score,
                                experience_score_, portfolio_score,
                                cultural_score,
                                generate_assessment_summary(overall_score)),
             !.is_complete = TRUE],
            "", FALSE)

\* generate_final_assessment(state): the four sub-scores, 0.0 for an analysis
\* dict that has no score, weighted 0.35, 0.25, 0.25, 0.15; not clamped
generate_final_assessment(st) ==
    LET skill_score == IF st.skills_analysis.empty THEN 0
                       ELSE st.skills_analysis.overall_skill_score
        experience_score_ == IF st.experience_analysis.empty THEN 0
                             ELSE st.experience_analysis.experience_fit_score
        portfolio_score == IF st.portfolio_analysis.empty THEN 0
                           ELSE st.portfolio_analysis.overall_portfolio_score
        cultural_score == IF st.cultural_fit_analysis.empty THEN 0
                          ELSE st.cultural_fit_analysis.cultural_fit_score
        overall_score ==
            (skill_score * 35 + experience_score_ * 25 + portfolio_score * 25
             + cultural_score * 15) \div 100
    IN  StageOut(
            [st EXCEPT !.analysis_results =
                AnalysisResults(FALSE, overall_score, skill_score,
                                experience_score_, portfolio_score,
                                cultural_score,
                                generate_assessment_summary(overall_score)),
             !.is_complete = TRUE],
            "", FALSE)

\* create_candidate_analysis_graph: the entry point and the edges
AnalysisEntry == "load_profile"

AnalysisEdge(node) ==
    CASE node = "load_profile" -> "analyze_skills"
      [] node = "analyze_skills" -> "analyze_experience"
      [] node = "analyze_experience" -> "analyze_portfolio"
      [] node = "analyze_portfolio" -> "assess_cultural_fit"
      [] node = "assess_cultural_fit" -> "generate_assessment"
      [] node = "generate_assessment" -> "END"

-----------------------------------------------------------------------------
(* run_candidate_analysis: one run of the analysis graph *)

BaseAnalysisProfile ==
    AnalysisProfile(PyList(<<"python", "django">>), PyInt(4), PyStr(Str_NY),
                    PyBool(FALSE),
                    PyList(<<Link("github", "u1"), Link("linkedin", "u1")>>))

BaseRequirements ==
    JobRequirements(PyList(<<"python", "django", "aws">>), PyStr(Str_mid),
                    PyStr(Str_nyc), PyBool(FALSE))

\* what vector_db.get_document gives the load stage
AnalysisDocs ==
    { [kind |-> "found", metadata |-> m] :
        m \in { BaseAnalysisProfile, EmptyAnalysisProfile,
                [BaseAnalysisProfile EXCEPT !.skills = PyNone],
                [BaseAnalysisProfile EXCEPT !.location = PyNone],
                [BaseAnalysisProfile EXCEPT !.portfolio_links = PyNone],
                [BaseAnalysisProfile EXCEPT !.experience_years = PyInt(1),
                    !.portfolio_links =
                        PyList(<<Link("github", "u1"), Link("github", "u2"),
                                 Link("resume", "cv.pdf"), Link("other", "blog")>>)] } }
    \cup { [kind |-> k, metadata |-> EmptyAnalysisProfile] :
            k \in {"absent", "raises"} }

\* the job_requirements a run is started with
RequirementInputs ==
    { BaseRequirements, EmptyRequirements,
      [BaseRequirements EXCEPT !.experience_level = PyNone],
      JobRequirements(PyList(<<"python">>), PyStr(<<"S", "e", "n", "i", "o", "r">>),
                      PyStr(Str_SF), PyBool(TRUE)) }

\* what a call of the GitHub tool or of the resume tool gives
GithubResponses ==
    { ToolResponse("success", GithubResult(12, 150, 60, 3)),
      ToolResponse("success", GithubResult(5, 20, 20, 2)),
      ToolResponse("failure", GithubResult(0, 0, 0, 0)),
      ToolResponse("raises", GithubResult(0, 0, 0, 0)) }

ResumeResponses ==
    { ToolResponse("success", ResumeResult(6, 10, "master", 1)),
      ToolResponse("failure", ResumeResult(0, 0, "", 0)),
      ToolResponse("raises", ResumeResult(0, 0, "", 0)) }

NoResponse == ToolResponse("none", GithubResult(0, 0, 0, 0))

\* the lists of responses the tool calls for a list of links can give
ResponsesFor(links) ==
    { r \in [DOMAIN links ->
                GithubResponses \cup ResumeResponses \cup {NoResponse}] :
        \A i \in DOMAIN links :
            r[i] \in (CASE links[i].platform = "github" -> GithubResponses
                        [] links[i].platform = "resume" -> ResumeResponses
                        [] OTHER -> {NoResponse}) }

\* run_candidate_analysis(candidate_id, job_requirements) up to graph.ainvoke
RunCandidateAnalysis ==
    /\ pc = "idle"
    /\ \E job_requirements \in RequirementInputs :
          state' = AnalysisState("c1", job_requirements)
    /\ run_kind' = "analysis"
    /\ pc' = AnalysisEntry
    /\ UNCHANGED <<steps, errors, sent, received, result, tool_responses>>

AnalyzerLoadProfile ==
    /\ run_kind = "analysis" /\ pc = "load_profile"
    /\ \E doc \in AnalysisDocs :
          NodeDone("load_profile", analyzer_load_candidate_profile(state, doc),
                   AnalysisEdge("load_profile"))
    /\ UNCHANGED <<run_kind, sent, result, tool_responses>>

AnalyzeSkills ==
    /\ run_kind = "analysis" /\ pc = "analyze_skills"
    /\ NodeDone("analyze_skills", analyze_skills(state),
                AnalysisEdge("analyze_skills"))
    /\ UNCHANGED <<run_kind, sent, result, tool_responses>>

AnalyzeExperience ==
    /\ run_kind = "analysis" /\ pc = "analyze_experience"
    /\ NodeDone("analyze_experience", analyze_experience(state),
                AnalysisEdge("analyze_experience"))
    /\ UNCHANGED <<run_kind, sent, result, tool_responses>>

AnalyzePortfolio ==
    /\ run_kind = "analysis" /\ pc = "analyze_portfolio"
    /\ \E responses \in
            ResponsesFor(get(state.candidate_profile.portfolio_links,
                             PyList(<<>>)).s) :
          /\ NodeDone("analyze_portfolio", analyze_portfolio(state, responses),
                      AnalysisEdge("analyze_portfolio"))
          /\ tool_responses' = responses
    /\ UNCHANGED <<run_kind, sent, result>>

AssessCulturalFit ==
    /\ run_kind = "analysis" /\ pc = "assess_cultural_fit"
    /\ NodeDone("assess_cultural_fit", assess_cultural_fit(state),
                AnalysisEdge("assess_cultural_fit"))
    /\ UNCHANGED <<run_kind, sent, result, tool_responses>>

GenerateAssessment ==
    /\ run_kind = "analysis" /\ pc = "generate_assessment"
    /\ NodeDone("generate_assessment", generate_final_assessment(state),
                AnalysisEdge("generate_assessment"))
    /\ UNCHANGED <<run_kind, sent, result, tool_responses>>

\* run_candidate_analysis after graph.ainvoke: the result dict
ReturnCandidateAnalysis ==
    /\ run_kind = "analysis" /\ pc \in {"END", "raised"}
    /\ result' = IF pc = "END"
                 THEN [success |-> TRUE, analysis |-> state.analysis_results,
                       is_complete |-> state.is_complete]
                 ELSE [success |-> FALSE,
                       analysis |-> AnalysisResults(TRUE, 0, 0, 0, 0, 0, ""),
                       is_complete |-> FALSE]
    /\ pc' = "done"
    /\ UNCHANGED <<run_kind, state, steps, errors, sent, received, tool_responses>>

PipeNext ==
    \/ RunJobMatching /\ UNCHANGED <<apply_vars, collect_vars, send_vars, proto_vars, wire_vars, score_vars, runs>>
    \/ LoadProfile /\ UNCHANGED <<apply_vars, collect_vars, send_vars, proto_vars, wire_vars, score_vars, runs>>
    \/ SearchJobs /\ UNCHANGED <<apply_vars, collect_vars, send_vars, proto_vars, wire_vars, score_vars, runs>>
    \/ ProcessMatches /\ UNCHANGED <<apply_vars, collect_vars, send_vars, proto_vars, wire_vars, score_vars, runs>>
    \/ NotifyFinder /\ UNCHANGED <<apply_vars, collect_vars, send_vars, proto_vars, wire_vars, score_vars, runs>>
    \/ ReturnJobMatching /\ UNCHANGED <<apply_vars, collect_vars, send_vars, proto_vars, wire_vars, score_vars, runs>>
    \/ RunCandidateAnalysis /\ UNCHANGED <<apply_vars, collect_vars, send_vars, proto_vars, wire_vars, score_vars, runs>>
    \/ AnalyzerLoadProfile /\ UNCHANGED <<apply_vars, collect_vars, send_vars, proto_vars, wire_vars, score_vars, runs>>
    \/ AnalyzeSkills /\ UNCHANGED <<apply_vars, collect_vars, send_vars, proto_vars, wire_vars, score_vars, runs>>
    \/ AnalyzeExperience /\ UNCHANGED <<apply_vars, collect_vars, send_vars, proto_vars, wire_vars, score_vars, runs>>
    \/ AnalyzePortfolio /\ UNCHANGED <<apply_vars, collect_vars, send_vars, proto_vars, wire_vars, score_vars, runs>>
    \/ AssessCulturalFit /\ UNCHANGED <<apply_vars, collect_vars, send_vars, proto_vars, wire_vars, score_vars, runs>>
    \/ GenerateAssessment /\ UNCHANGED <<apply_vars, collect_vars, send_vars, proto_vars, wire_vars, score_vars, runs>>
    \/ ReturnCandidateAnalysis /\ UNCHANGED <<apply_vars, collect_vars, send_vars, proto_vars, wire_vars, score_vars, runs>>

SpecPipe == PipeInit /\ [][PipeNext]_vars

-----------------------------------------------------------------------------
(* Two calls of run_job_matching for different candidates on one event loop.
   A coroutine runs until it awaits; the steps below are the stretches of a
   run between two awaits (the store call, the search call, the analysis of
   one job, the send), so the runs interleave at these points. *)

Runs == {"r1", "r2"}

\* the candidate a run is for
Subject(r) == IF r = "r1" THEN "c1" ELSE "c2"

\* a run: where it is, its MatchingState object, the locals of
\* process_job_matches (matches and the loop position), what the external
\* calls gave it, whether it ran a step while the other run was under way,
\* and its result
Run(pos, st, matches, idx, doc, found, transport_ok, overlapped, res) ==
    [pc |-> pos, state |-> st, matches |-> matches, idx |-> idx, doc |-> doc,
     found |-> found, transport_ok |-> transport_ok,
     overlapped |-> overlapped, result |-> res]

NoDoc == [kind |-> "absent", metadata |-> EmptyProfile]
NoSearch == [kind |-> "raises", results |-> <<>>]

\* what the store and the search give a run
RunDocs ==
    { [kind |-> "found", metadata |-> m] :
        m \in {BaseCandidate, [BaseCandidate EXCEPT !.location = PyStr(Str_SF)]} }
    \cup {NoDoc}

RunSearches ==
    { [kind |-> "ok", results |-> [i \in DOMAIN q |-> SearchResult(q[i], i)]] :
        q \in InjectiveSeqs({"j1", "j2"}, MaxJobs) }
    \cup {NoSearch}

\* the state object of run r: run_job_matching builds its own MatchingState
\* (and its own clients and graph) in every call
RunState(rs, r) == rs[r].state

\* the list that process_job_matches collects into: a local of the call
RunMatches_shared(rs, r) == rs["r1"].matches

RunMatches(rs, r) == rs[r].matches

OtherBusy(r) == \E o \in Runs \ {r} : runs[o].pc \notin {"idle", "done"}

\* run r goes on to the record next; the other run is not touched
RunStep(r, next) ==
    runs' = [runs EXCEPT ![r] = [next EXCEPT !.overlapped = @ \/ OtherBusy(r)]]

TwoRunsInit ==
    /\ runs = [r \in Runs |->
                Run("idle", NoData, <<>>, 0, NoDoc, NoSearch, TRUE, FALSE, NoData)]
    /\ agent_id = "A" /\ message_handlers = DefaultHandlers
    /\ message_data = NoData /\ proc_result = NoResult
    /\ wire_msg = NoData /\ wire_data = NoData /\ wire_back = NoData
    /\ wire_pc = "idle"
    /\ sc_call = NoData /\ sc_ret = NoData
    /\ run_kind = "idle" /\ pc = "idle" /\ state = NoData /\ steps = <<>>
    /\ errors = <<>> /\ sent = <<>> /\ received = NoData /\ result = NoData
    /\ tool_responses = <<>>
    /\ cand_state = NoData /\ cand_call = NoData
    /\ send_call = NoData /\ send_ret = NoData
    /\ producer = None /\ topic = <<>> /\ apply_call = NoData /\ apply_ret = NoData

\* run_job_matching up to the await of get_document in load_candidate_profile
RunStart(r) ==
    /\ runs[r].pc = "idle"
    /\ \E max_matches \in {1, DefaultMaxMatches} :
          RunStep(r, [runs[r] EXCEPT
                        !.state = MatchingState(Subject(r), DefaultMinMatchScore,
                                                max_matches),
                        !.pc = "await get_document"])
    /\ UNCHANGED sent

\* get_document answers: the rest of load_candidate_profile, then
\* search_available_jobs up to its return or to the await of search
RunLoaded(r) ==
    /\ runs[r].pc = "await get_document"
    /\ \E doc \in RunDocs :
          LET st == load_candidate_profile(RunState(runs, r), doc).state
          IN  RunStep(r, [runs[r] EXCEPT
                            !.state = st, !.doc = doc,
                            !.pc = IF st.candidate_profile = EmptyProfile
                                   THEN "process_matches" ELSE "await search"])
    /\ UNCHANGED sent

\* search answers: the rest of search_available_jobs
RunSearched(r) ==
    /\ runs[r].pc = "await search"
    /\ \E found \in RunSearches :
          RunStep(r, [runs[r] EXCEPT
                        !.state = search_available_jobs(RunState(runs, r), found).state,
                        !.found = found, !.pc = "process_matches"])
    /\ UNCHANGED sent

\* process_job_matches from its start, or from the answer of one
\* analyze_job_match, to the next await of analyze_job_match or to its return
RunProcess(r) ==
    /\ runs[r].pc = "process_matches"
    /\ LET st == RunState(runs, r)
           i == runs[r].idx + 1
           matches == RunMatches(runs, r)
       IN  IF i > Len(st.available_jobs) \/ Len(matches) >= st.max_matches
           THEN RunStep(r, [runs[r] EXCEPT
                              !.state = [st EXCEPT !.matches = SortByScore(matches)],
                              !.pc = "notify_finder"])
           ELSE LET match == analyze_job_match(st.candidate_profile,
                                               st.available_jobs[i])
                IN  RunStep(r, [runs[r] EXCEPT
                                  !.idx = i,
                                  !.matches =
                                     IF match.match_score >= st.min_match_score
                                     THEN Append(matches, match) ELSE matches])
    /\ UNCHANGED sent

\* notify_candidate_finder over the await of the send, and the return of
\* run_job_matching
RunNotify(r) ==
    /\ runs[r].pc = "notify_finder"
    /\ \E transport_ok \in BOOLEAN :
          LET st == RunState(runs, r)
              n == notify_candidate_finder(st, "job_finder_agent", ProtoTime,
                                           transport_ok)
          IN  /\ RunStep(r, [runs[r] EXCEPT
                               !.state = n.out.state,
                               !.transport_ok = transport_ok,
                               !.result = [success |-> TRUE,
                                           matches |-> n.out.state.matches,
                                           total_matches |-> Len(n.out.state.matches)],
                               !.pc = "done"])
              /\ sent' = sent \o n.published

TwoRunsNext ==
    \/ \E r \in Runs : RunStart(r)
          /\ UNCHANGED <<apply_vars, collect_vars, send_vars, proto_vars, wire_vars, score_vars, run_kind, pc, state,
                         steps, errors, received, result, tool_responses>>
    \/ \E r \in Runs : RunLoaded(r)
          /\ UNCHANGED <<apply_vars, collect_vars, send_vars, proto_vars, wire_vars, score_vars, run_kind, pc, state,
                         steps, errors, received, result, tool_responses>>
    \/ \E r \in Runs : RunSearched(r)
          /\ UNCHANGED <<apply_vars, collect_vars, send_vars, proto_vars, wire_vars, score_vars, run_kind, pc, state,
                         steps, errors, received, result, tool_responses>>
    \/ \E r \in Runs : RunProcess(r)
          /\ UNCHANGED <<apply_vars, collect_vars, send_vars, proto_vars, wire_vars, score_vars, run_kind, pc, state,
                         steps, errors, received, result, tool_responses>>
    \/ \E r \in Runs : RunNotify(r)
          /\ UNCHANGED <<apply_vars, collect_vars, send_vars, proto_vars, wire_vars, score_vars, run_kind, pc, state,
                         steps, errors, received, result, tool_responses>>

SpecTwoRuns == TwoRunsInit /\ [][TwoRunsNext]_vars

-----------------------------------------------------------------------------
(* calls on the sending side: send_message and the construction helpers *)

MaxSent == 2

\* the Message objects handed to send_message, and the plain dict that
\* test_agent_communication hands to it
SentMessages ==
    { Message("m1", t, "A", r, ProtoTime, p, EmptyDict) :
        t \in {"MATCH_REQUEST", "AGENT_STATUS", "JOB_CREATED"},
        r \in {None, "B"},
        p \in {EmptyDict} }

PlainDict == Dict({<<"type", "job_search_request">>})

SendArguments == SentMessages \cup {PlainDict}

BroadcastTypes == {"AGENT_HEARTBEAT", "AGENT_STATUS", "AGENT_ERROR"}

BroadcastPayloads == {Dict({<<"status", "alive">>}), EmptyDict}

MatchRequests ==
    { MatchRequest(id, "c1", [max_matches |-> DefaultMaxMatches]) :
        id \in {"q1", "q2"} }

MatchResponses ==
    { MatchResponse(id, <<"j1">>, <<Scale>>) : id \in {"q1", "q2"} }

SendCall(op, argument, receiver_id, transport_ok) ==
    [op |-> op, argument |-> argument, receiver_id |-> receiver_id,
     transport_ok |-> transport_ok, sent_before |-> sent]

SendInit ==
    /\ agent_id \in Agents
    /\ message_handlers = DefaultHandlers
    /\ message_data = NoData /\ proc_result = NoResult
    /\ wire_msg = NoData /\ wire_data = NoData /\ wire_back = NoData
    /\ wire_pc = "idle"
    /\ sc_call = NoData /\ sc_ret = NoData
    /\ run_kind = "idle" /\ pc = "idle" /\ state = NoData /\ steps = <<>>
    /\ errors = <<>> /\ sent = <<>> /\ received = NoData /\ result = NoData
    /\ tool_responses = <<>>
    /\ runs = <<>>
    /\ producer = None /\ topic = <<>> /\ apply_call = NoData /\ apply_ret = NoData
    /\ cand_state = NoData /\ cand_call = NoData
    /\ send_call = NoData /\ send_ret = NoData

\* what a call leaves: the returned value and the envelopes on the transport
SendDone(call, r) ==
    /\ send_call' = call
    /\ send_ret' = r.ret
    /\ sent' = sent \o r.published

CallSendMessage ==
    /\ Len(sent) < MaxSent
    /\ \E message \in SendArguments, transport_ok \in BOOLEAN :
          SendDone(SendCall("send_message", message, None, transport_ok),
                   send_message(message, transport_ok))

CallBroadcastMessage ==
    /\ Len(sent) < MaxSent
    /\ \E t \in BroadcastTypes, payload \in BroadcastPayloads,
          transport_ok \in BOOLEAN :
          SendDone(SendCall("broadcast_message",
                            [message_type |-> t, payload |-> payload],
                            None, transport_ok),
                   broadcast_message(agent_id, t, payload, ProtoTime, transport_ok))

CallSendMatchRequest ==
    /\ Len(sent) < MaxSent
    /\ \E receiver_id \in {"B", "candidate_finder_agent"},
          match_request \in MatchRequests, transport_ok \in BOOLEAN :
          SendDone(SendCall("send_match_request", match_request, receiver_id,
                            transport_ok),
                   send_match_request(agent_id, receiver_id, match_request,
                                      ProtoTime, transport_ok))

CallSendMatchResponse ==
    /\ Len(sent) < MaxSent
    /\ \E receiver_id \in {"B", "job_finder_agent"},
          match_response \in MatchResponses, transport_ok \in BOOLEAN :
          SendDone(SendCall("send_match_response", match_response, receiver_id,
                            transport_ok),
                   send_match_response(agent_id, receiver_id, match_response,
                                       ProtoTime, transport_ok))

SendNext ==
    \/ CallSendMessage
          /\ UNCHANGED <<apply_vars, collect_vars, proto_vars, wire_vars, score_vars, runs, run_kind, pc,
                         state, steps, errors, received, result, tool_responses>>
    \/ CallBroadcastMessage
          /\ UNCHANGED <<apply_vars, collect_vars, proto_vars, wire_vars, score_vars, runs, run_kind, pc,
                         state, steps, errors, received, result, tool_responses>>
    \/ CallSendMatchRequest
          /\ UNCHANGED <<apply_vars, collect_vars, proto_vars, wire_vars, score_vars, runs, run_kind, pc,
                         state, steps, errors, received, result, tool_responses>>
    \/ CallSendMatchResponse
          /\ UNCHANGED <<apply_vars, collect_vars, proto_vars, wire_vars, score_vars, runs, run_kind, pc,
                         state, steps, errors, received, result, tool_responses>>

SpecSend == SendInit /\ [][SendNext]_vars

-----------------------------------------------------------------------------
(* PreferenceCollector.process_answer: the preference-collection            *)
(* conversation (job_finder_agent/workflows/collect_preferences.py).  A str *)
(* is a sequence of characters.                                             *)

Whitespace == {" "}

\* s.strip()
RECURSIVE strip(_)
strip(s) ==
    IF s = <<>> THEN s
    ELSE IF Head(s) \in Whitespace THEN strip(Tail(s))
    ELSE IF s[Len(s)] \in Whitespace THEN strip(SubSeq(s, 1, Len(s) - 1))
    ELSE s

\* s.split(','): the pieces between the commas, the empty ones included
RECURSIVE split(_, _)
split(s, piece) ==
    IF s = <<>> THEN <<piece>>
    ELSE IF Head(s) = "," THEN <<piece>> \o split(Tail(s), <<>>)
    ELSE split(Tail(s), Append(piece, Head(s)))

\* [x.strip() for x in answer.split(',') if x.strip()]
RECURSIVE StrippedItems(_)
StrippedItems(pieces) ==
    IF pieces = <<>> THEN <<>>
    ELSE (IF strip(Head(pieces)) = <<>> THEN <<>> ELSE <<strip(Head(pieces))>>)
         \o StrippedItems(Tail(pieces))

parse_items(answer) == StrippedItems(split(answer, <<>>))

\* d[k] = v on a dict
DictSet(d, k, v) == [x \in DOMAIN d \cup {k} |-> IF x = k THEN v ELSE d[x]]

\* CandidateState(candidate_id=..., conversation_history=[]): the fields that
\* process_answer reads or writes, with their defaults
CandidateState(candidate_id) ==
    [candidate_id |-> candidate_id, conversation_history |-> <<>>,
     collected_data |-> <<>>, current_step |-> "initial_greeting",
     is_complete |-> FALSE, error_message |-> "",
     name |-> <<>>, email |-> <<>>, skills |-> <<>>, experience_years |-> 0,
     preferred_roles |-> <<>>, portfolio_links |-> <<>>]

\* self.conversation_steps
conversation_steps ==
    <<"initial_greeting", "collect_basic_info", "collect_skills",
      "collect_experience", "collect_preferences", "collect_portfolio",
      "finalize_profile">>

\* the depth of nested process_answer calls at which the interpreter raises
\* RecursionError instead of entering one more call
RecursionLimit == 4

\* lines 99-102: the branch of the step initial_greeting
answer_initial_greeting(st, answer) ==
    [st EXCEPT !.name = strip(answer),
               !.current_step = "collect_basic_info",
               !.collected_data = DictSet(@, "name", strip(answer))]

answer_collect_skills_skip(st, answer) ==
    [st EXCEPT !.skills = parse_items(answer),
               !.collected_data = DictSet(@, "skills", parse_items(answer)),
               !.current_step = "collect_preferences"]

\* lines 114-119: the branch of the step collect_skills
answer_collect_skills(st, answer) ==
    [st EXCEPT !.skills = parse_items(answer),
               !.collected_data = DictSet(@, "skills", parse_items(answer)),
               !.current_step = "collect_experience"]

\* lines 121-130: the branch of the step collect_experience
answer_collect_experience(st, answer) ==
    LET found == FindNumbers(answer, 1, -1)
        years == IF found = <<>> THEN 0 ELSE found[1]
    IN  [st EXCEPT !.experience_years = years,
                   !.collected_data = DictSet(@, "experience_years", years),
                   !.current_step = "collect_preferences"]

\* lines 132-137: the branch of the step collect_preferences
answer_collect_preferences(st, answer) ==
    [st EXCEPT !.preferred_roles = parse_items(answer),
               !.collected_data = DictSet(@, "preferred_roles", parse_items(answer)),
               !.current_step = "collect_portfolio"]

\* lines 139-144: the branch of the step collect_portfolio
answer_collect_portfolio(st, answer) ==
    [st EXCEPT !.portfolio_links = parse_items(answer),
               !.collected_data = DictSet(@, "portfolio_links", parse_items(answer)),
               !.current_step = "finalize_profile"]

\* lines 149-153: the answer goes to the end of the conversation history
add_to_history(st, answer) ==
    [st EXCEPT !.conversation_history =
        Append(@, [role |-> "user", content |-> answer])]

\* process_answer(state, answer) entered at call depth `depth`: [state, depth],
\* the state object as the call leaves it and the deepest call entered.  In
\* the step collect_basic_info without a name the method calls itself with
\* the answer ""; when that call would pass RecursionLimit the interpreter
\* raises RecursionError in the calling frame, whose except clause records
\* it, and every frame above returns the state.
RECURSIVE process_answer(_, _, _)
process_answer(st, answer, depth) ==
    CASE st.current_step = "initial_greeting" ->
            [state |-> add_to_history(answer_initial_greeting(st, answer), answer),
             depth |-> depth]
      [] st.current_step = "collect_basic_info" ->
            IF st.name = <<>>
            THEN LET named ==
                        [st EXCEPT !.name = strip(answer),
                                   !.collected_data =
                                        DictSet(@, "name", strip(answer))]
                 IN  IF depth >= RecursionLimit
                     THEN [state |->
                              [named EXCEPT !.error_message =
                                  "maximum recursion depth exceeded while calling a Python object"],
                           depth |-> depth]
                     ELSE process_answer(named, <<>>, depth + 1)
            ELSE IF st.email = <<>>
            THEN [state |->
                     add_to_history(
                        [st EXCEPT !.email = strip(answer),
                                   !.collected_data =
                                        DictSet(@, "email", strip(answer)),
                                   !.current_step = "collect_skills"],
                        answer),
                  depth |-> depth]
            ELSE [state |-> add_to_history(st, answer), depth |-> depth]
      [] st.current_step = "collect_skills" ->
            [state |-> add_to_history(answer_collect_skills(st, answer), answer),
             depth |-> depth]
      [] st.current_step = "collect_experience" ->
            [state |-> add_to_history(answer_collect_experience(st, answer), answer),
             depth |-> depth]
      [] st.current_step = "collect_preferences" ->
            [state |-> add_to_history(answer_collect_preferences(st, answer), answer),
             depth |-> depth]
      [] st.current_step = "collect_portfolio" ->
            [state |-> add_to_history(answer_collect_portfolio(st, answer), answer),
             depth |-> depth]
      [] st.current_step = "finalize_profile" ->
            [state |-> add_to_history([st EXCEPT !.is_complete = TRUE], answer),
             depth |-> depth]
      [] OTHER -> [state |-> add_to_history(st, answer), depth |-> depth]

\* the answers a candidate gives: nothing, blanks, a name with blanks around
\* it, and a list with a number and an empty item
MaxAnswers == 8

Answers ==
    { <<>>, <<" ">>, <<" ", "A", "n", "n", " ">>,
      <<"g", "o", ",", " ", "5", " ", ",">> }

CollectInit ==
    /\ agent_id = "A" /\ message_handlers = DefaultHandlers
    /\ message_data = NoData /\ proc_result = NoResult
    /\ wire_msg = NoData /\ wire_data = NoData /\ wire_back = NoData
    /\ wire_pc = "idle"
    /\ sc_call = NoData /\ sc_ret = NoData
    /\ run_kind = "idle" /\ pc = "idle" /\ state = NoData /\ steps = <<>>
    /\ errors = <<>> /\ sent = <<>> /\ received = NoData /\ result = NoData
    /\ tool_responses = <<>>
    /\ runs = <<>>
    /\ producer = None /\ topic = <<>> /\ apply_call = NoData /\ apply_ret = NoData
    /\ send_call = NoData /\ send_ret = NoData
    /\ cand_state = CandidateState("c1")
    /\ cand_call = NoData

\* state = collector.process_answer(state, answer)
ProcessAnswer ==
    /\ Len(cand_state.conversation_history) < MaxAnswers
    /\ \E answer \in Answers :
          LET r == process_answer(cand_state, answer, 1)
          IN  /\ cand_state' = r.state
              /\ cand_call' = [answer |-> answer, before |-> cand_state,
                               depth |-> r.depth]

CollectNext ==
    \/ ProcessAnswer
          /\ UNCHANGED <<apply_vars, proto_vars, wire_vars, score_vars, run_vars, runs,
                         send_vars>>

SpecCollect == CollectInit /\ [][CollectNext]_vars

-----------------------------------------------------------------------------
(* JobApplicationProcessor.process_job_matches and _send_applications        *)
(* (job_finder_agent/workflows/apply_jobs.py).  A dict is a function from    *)
(* its keys; an entry of job_matches that is not a dict is PyNone.           *)

applications_topic == "job-applications"
KafkaProducer == "KafkaProducer"

\* datetime.utcnow().isoformat()
_get_current_timestamp == "utcnow"

\* job.get(key, default)
job_get(job, key, default) ==
    IF key \in DOMAIN job THEN job[key] ELSE default

\* job.get exists: the entry is a dict
IsDict(job) == "kind" \notin DOMAIN job

\* the dict built from one job match; {} when building it raised
_create_application(job, user_id, request_id) ==
    IF ~IsDict(job)
    THEN <<>>
    ELSE [application_id |-> <<"app_", request_id, "_", job_get(job, "id", "unknown")>>,
          user_id |-> user_id,
          job_id |-> job_get(job, "id", None),
          job_title |-> job_get(job, "title", None),
          company |-> job_get(job, "company", None),
          location |-> job_get(job, "location", None),
          match_score |-> job_get(job, "match_score", 0),
          status |-> "recommended",
          created_at |-> _get_current_timestamp,
          job_details |->
              [description |-> job_get(job, "description", None),
               requirements |-> job_get(job, "requirements", <<>>),
               skills |-> job_get(job, "skills", <<>>),
               experience_level |-> job_get(job, "experience_level", None),
               salary_range |-> job_get(job, "salary_range", None),
               job_type |-> job_get(job, "job_type", None),
               remote_friendly |-> job_get(job, "remote_friendly", FALSE)]]

\* the record producer.send puts on the topic
ProducerRecord(application) ==
    [topic |-> applications_topic, key |-> application.application_id,
     value |-> application]

\* the first pass of the loop that raises, 0 when none does: the application
\* has no 'application_id' (KeyError) or future.get raises (KafkaError)
FirstRaise(applications, fails_at) ==
    LET raising == { i \in DOMAIN applications :
                        \/ "application_id" \notin DOMAIN applications[i]
                        \/ i = fails_at }
    IN  IF raising = {} THEN 0
        ELSE CHOOSE i \in raising : \A j \in raising : i <= j

\* _send_applications: connects when there is no producer, then sends the
\* applications in order, waiting for each; an exception ends the loop and
\* leaves the method.  connect_ok and fails_at are what the broker does.
_send_applications(prod, applications, connect_ok, fails_at) ==
    IF prod = None /\ ~connect_ok
    THEN [raised |-> "NoBrokersAvailable", published |-> <<>>, producer |-> None]
    ELSE LET stop == FirstRaise(applications, fails_at)
             done == IF stop = 0 THEN Len(applications) ELSE stop - 1
         IN  [raised |->
                  IF stop = 0 THEN ""
                  ELSE IF "application_id" \notin DOMAIN applications[stop]
                       THEN "'application_id'" ELSE "KafkaError",
              published |->
                  [i \in 1..done |-> ProducerRecord(applications[i])],
              producer |-> KafkaProducer]

\* JobApplicationProcessor.process_job_matches: the report, with what the call published and the
\* producer it leaves
processor_process_job_matches(prod, job_matches, user_id, request_id, connect_ok, fails_at) ==
    LET applications ==
            [i \in DOMAIN job_matches |->
                _create_application(job_matches[i], user_id, request_id)]
        s == _send_applications(prod, applications, connect_ok, fails_at)
    IN  [ret |-> IF s.raised = ""
                 THEN [request_id |-> request_id, user_id |-> user_id,
                       applications_created |-> Len(applications),
                       applications |-> applications]
                 ELSE [request_id |-> request_id, user_id |-> user_id,
                       applications_created |-> 0,
                       error |-> s.raised],
         published |-> s.published,
         producer |-> s.producer]

MaxBatch == 3
MaxPublished == 3

\* job matches: with every key read, without an id, and an entry that is
\* not a dict
ApplyJobs ==
    { [id |-> "j1", title |-> "dev", company |-> "acme", location |-> "NY",
       match_score |-> 90],
      [title |-> "ops"],
      PyNone }

JobMatchBatches ==
    UNION { [1..n -> ApplyJobs] : n \in 0..MaxBatch }

ApplyInit ==
    /\ agent_id = "A" /\ message_handlers = DefaultHandlers
    /\ message_data = NoData /\ proc_result = NoResult
    /\ wire_msg = NoData /\ wire_data = NoData /\ wire_back = NoData
    /\ wire_pc = "idle"
    /\ sc_call = NoData /\ sc_ret = NoData
    /\ run_kind = "idle" /\ pc = "idle" /\ state = NoData /\ steps = <<>>
    /\ errors = <<>> /\ sent = <<>> /\ received = NoData /\ result = NoData
    /\ tool_responses = <<>>
    /\ runs = <<>>
    /\ cand_state = NoData /\ cand_call = NoData
    /\ send_call = NoData /\ send_ret = NoData
    /\ producer = None /\ topic = <<>> /\ apply_call = NoData /\ apply_ret = NoData

\* processor.connect_kafka() called by the owner of the processor
ConnectKafka ==
    /\ producer = None
    /\ producer' = KafkaProducer
    /\ UNCHANGED <<topic, apply_call, apply_ret>>

\* processor.process_job_matches(job_matches, user_id, request_id)
ProcessJobMatches ==
    \E job_matches \in JobMatchBatches, request_id \in {"r1", "r2"},
       connect_ok \in BOOLEAN :
       \E fails_at \in 0..Len(job_matches) :
          LET r == processor_process_job_matches(producer, job_matches, "u1", request_id,
                                       connect_ok, fails_at)
          IN  /\ Len(topic) + Len(job_matches) <= MaxPublished
              /\ (producer # None => connect_ok)
              /\ apply_call' = [job_matches |-> job_matches,
                                request_id |-> request_id,
                                connect_ok |-> connect_ok,
                                fails_at |-> fails_at,
                                topic_before |-> topic]
              /\ apply_ret' = r.ret
              /\ topic' = topic \o r.published
              /\ producer' = r.producer

ApplyNext ==
    \/ ConnectKafka
          /\ UNCHANGED <<proto_vars, wire_vars, score_vars, run_vars, runs,
                         send_vars, collect_vars>>
    \/ ProcessJobMatches
          /\ UNCHANGED <<proto_vars, wire_vars, score_vars, run_vars, runs,
                         send_vars, collect_vars>>

SpecApply == ApplyInit /\ [][ApplyNext]_vars

-----------------------------------------------------------------------------
(* Claims about the protocol *)

\* the envelope decodes: a known type tag (or the member itself), an ISO-8601
\* timestamp text, the two required keys, and no key that is not a field
WellFormedEnvelope(d) ==
    /\ \/ d.message_type \in MessageType
       \/ \E t \in MessageType : MessageTypeValue[t] = d.message_type
    /\ d.timestamp.kind = "str" /\ d.timestamp.secs >= 0
    /\ d.message_id # Missing /\ d.sender_id # Missing
    /\ ~d.extra_key

EnvelopeType(d) ==
    IF d.message_type \in MessageType THEN d.message_type
    ELSE CHOOSE t \in MessageType : MessageTypeValue[t] = d.message_type

NamesOtherAgent(d) ==
    /\ d.receiver_id \notin {Missing, None, ""}
    /\ d.receiver_id # agent_id

\* C1: a decodable message whose receiver_id is present and is not this
\* agent's id makes process_message return False and invoke no handler,
\* whatever its type and whatever handlers are registered.
C1_RoutingFilter ==
    (/\ proc_result.called
     /\ WellFormedEnvelope(proc_result.input)
     /\ NamesOtherAgent(proc_result.input))
    => (/\ proc_result.ret = FALSE
        /\ ~proc_result.raised
        /\ proc_result.invoked = <<>>)

\* a message for another agent, of a type this agent has a handler for, was
\* processed and dropped
C1_Witness ==
    /\ proc_result.called
    /\ WellFormedEnvelope(proc_result.input)
    /\ NamesOtherAgent(proc_result.input)
    /\ proc_result.handlers_before[EnvelopeType(proc_result.input)] \in UserHandlers
    /\ proc_result.ret = FALSE

\* C5: process_message never raises: every call returns a boolean, also when a
\* handler raises; when the envelope does not decode it returns False and no
\* handler is invoked.
C5_NeverRaises ==
    proc_result.called
    => (/\ ~proc_result.raised
        /\ proc_result.ret \in BOOLEAN
        /\ ~WellFormedEnvelope(proc_result.input)
             => (proc_result.ret = FALSE /\ proc_result.invoked = <<>>))

\* a handler that raises was invoked and the call returned False
C5_Witness ==
    /\ proc_result.called
    /\ proc_result.invoked = <<"user_raises">>
    /\ proc_result.ret = FALSE
    /\ ~proc_result.raised

\* C6: a decodable message addressed to this agent or broadcast, whose type
\* has no registered handler, makes process_message return False without
\* raising, invoke no handler and leave the handler registry as it was.
C6_UnregisteredType ==
    (/\ proc_result.called
     /\ WellFormedEnvelope(proc_result.input)
     /\ ~NamesOtherAgent(proc_result.input)
     /\ proc_result.handlers_before[EnvelopeType(proc_result.input)] = NoHandler)
    => (/\ proc_result.ret = FALSE
        /\ ~proc_result.raised
        /\ proc_result.invoked = <<>>
        /\ message_handlers = proc_result.handlers_before)

\* a message addressed to this agent by name, of a type without a handler, was
\* processed
C6_Witness ==
    /\ proc_result.called
    /\ WellFormedEnvelope(proc_result.input)
    /\ proc_result.input.receiver_id = agent_id
    /\ proc_result.handlers_before[EnvelopeType(proc_result.input)] = NoHandler
    /\ proc_result.ret = FALSE

-----------------------------------------------------------------------------
(* Claims about the ranking of the matching stage *)

\* the JobMatch of every search result of the run, in search order
AllAnalysed(st) ==
    [i \in DOMAIN st.available_jobs |->
        analyze_job_match(st.candidate_profile, st.available_jobs[i])]

\* the items of a list that are at or above the minimum score, in order
RECURSIVE DropBelow(_, _)
DropBelow(ms, min_match_score) ==
    IF ms = <<>> THEN <<>>
    ELSE (IF Head(ms).match_score >= min_match_score THEN <<Head(ms)>> ELSE <<>>)
         \o DropBelow(Tail(ms), min_match_score)

FirstN(q, n) == SubSeq(q, 1, Min(n, Len(q)))

MatchingStageDone == run_kind = "matching" /\ "process_matches" \in Range(steps)

\* C2, first half: the match list is the first max_matches entries of the
\* search results at or above min_match_score sorted by descending score
C2_TopOfSortedList ==
    MatchingStageDone =>
        state.matches =
            FirstN(SortByScore(DropBelow(AllAnalysed(state), state.min_match_score)),
                   state.max_matches)

\* C2, second half: no search result that is left out has a higher score than
\* one that is returned
C2_NoBetterLeftOut ==
    MatchingStageDone =>
        \A left \in Range(AllAnalysed(state)) : \A m \in Range(state.matches) :
            left.job_id \notin { r.job_id : r \in Range(state.matches) }
                => left.match_score <= m.match_score

\* C2: ranking returns the best results: the match list of the matching stage
\* is exactly the first max_matches entries of the search results at or above
\* min_match_score sorted by descending score, and no search result left out
\* scores higher than a returned one
C2_RankingReturnsBest == C2_TopOfSortedList /\ C2_NoBetterLeftOut

\* the place of a job in the search results of the run
SearchPosition(st, job_id) ==
    CHOOSE i \in DOMAIN st.available_jobs : st.available_jobs[i].id = job_id

\* C12: score ties keep search order: two matches with exactly equal scores
\* appear in the match list in the order in which the search returned them
C12_TiesKeepSearchOrder ==
    MatchingStageDone =>
        \A a, b \in DOMAIN state.matches :
            (a < b /\ state.matches[a].match_score = state.matches[b].match_score)
                => SearchPosition(state, state.matches[a].job_id)
                     < SearchPosition(state, state.matches[b].job_id)

\* a search that returned j4, j1, j3, of which j4 and j1 score the same and j3
\* scores less, ranked as j4, j1, j3
C12_Witness ==
    /\ run_kind = "matching" /\ pc = "done"
    /\ [i \in DOMAIN state.available_jobs |-> state.available_jobs[i].id]
          = <<"j4", "j1", "j3">>
    /\ [i \in DOMAIN result.matches |-> result.matches[i].job_id]
          = <<"j4", "j1", "j3">>
    /\ result.matches[1].match_score = result.matches[2].match_score
    /\ result.matches[3].match_score < result.matches[2].match_score

-----------------------------------------------------------------------------
(* Claims about the runs of the two pipelines *)

MatchingStages ==
    <<"load_profile", "search_jobs", "process_matches", "notify_finder">>

AnalysisStages ==
    <<"load_profile", "analyze_skills", "analyze_experience",
      "analyze_portfolio", "assess_cultural_fit", "generate_assessment">>

RunEnded == pc \in {"END", "done"}

\* the load stage found no profile for the subject
ProfileNotFound ==
    \E e \in Range(errors) :
        e.step = "load_profile" /\ e.error = "Candidate profile not found"

\* C3: if the load stage finds no profile, the final result is zero-filled:
\* the overall score and every sub-score of the analysis pipeline are 0, and
\* the matching pipeline returns no matches
C3_ZeroFilledWithoutProfile ==
    (pc = "done" /\ ProfileNotFound) =>
        IF run_kind = "analysis"
        THEN /\ result.analysis.overall_score = 0
             /\ result.analysis.skill_score = 0
             /\ result.analysis.experience_score = 0
             /\ result.analysis.portfolio_score = 0
             /\ result.analysis.cultural_score = 0
        ELSE result.matches = <<>>

\* C4: the error record of a run only grows: every error a stage recorded is
\* still held by the state, whatever a later stage recorded after it
C4_ErrorsOnlyGrow ==
    \A i \in DOMAIN errors : errors[i].error = state.error_message

\* C8: a run of the matching pipeline executes load_profile, search_jobs,
\* process_matches, notify_finder once each in that order and then ends: the
\* stages run so far are always a prefix of that list, the next stage is the
\* one after the prefix, and a run that ended ran the whole list
C8_FixedStageOrder ==
    run_kind = "matching" =>
        /\ Len(steps) <= Len(MatchingStages)
        /\ steps = SubSeq(MatchingStages, 1, Len(steps))
        /\ RunEnded => steps = MatchingStages
        /\ pc \notin {"END", "done", "raised"} => pc = MatchingStages[Len(steps) + 1]

\* a matching run that ended after a failed search, with no job and no match
C8_Witness ==
    /\ run_kind = "matching" /\ pc = "done"
    /\ steps = MatchingStages
    /\ state.error_message = "search failed"
    /\ state.available_jobs = <<>> /\ state.matches = <<>>

\* C9: an exception raised inside a stage is caught at the stage's boundary:
\* no run is left by an exception, and a run that ended executed every stage
\* of its pipeline
C9_CaughtAtStageBoundary ==
    /\ pc # "raised"
    /\ result # NoData => result.success
    /\ (RunEnded /\ run_kind = "matching") => steps = MatchingStages
    /\ (RunEnded /\ run_kind = "analysis") => steps = AnalysisStages

\* an analysis run in which a tool call of the portfolio stage raised, and
\* which still ran all six stages and returned a result
C9_Witness ==
    /\ run_kind = "analysis" /\ pc = "done"
    /\ \E e \in Range(errors) :
          e.step = "analyze_portfolio" /\ e.error = "tool call failed"
    /\ steps = AnalysisStages
    /\ result.success /\ result.is_complete

\* the run C2 fails on: max_matches 1, the default minimum 0.7, and a search
\* that lists j1 (score 49/60) before j2 (score 0.95): j1 alone is returned
C2_FailingRun ==
    /\ run_kind = "matching" /\ pc = "done"
    /\ state.max_matches = 1 /\ state.min_match_score = DefaultMinMatchScore
    /\ state.candidate_profile = BaseCandidate
    /\ Len(state.available_jobs) = 2
    /\ state.available_jobs[1].id = "j1" /\ state.available_jobs[2].id = "j2"
    /\ Len(result.matches) = 1
    /\ result.matches[1].job_id = "j1"
    /\ result.matches[1].match_score * 60 = 49 * Scale
    /\ AllAnalysed(state)[2].match_score = Hundredths(95)

\* the run C3 fails on: no profile in the store and empty job requirements;
\* the result is complete with overall score 0.40, experience score 1.0 and
\* cultural score 1.0
C3_FailingRun ==
    /\ run_kind = "analysis" /\ pc = "done" /\ ProfileNotFound
    /\ state.job_requirements = EmptyRequirements
    /\ result.success /\ result.is_complete
    /\ result.analysis.overall_score = Hundredths(40)
    /\ result.analysis.skill_score = 0
    /\ result.analysis.experience_score = Scale
    /\ result.analysis.portfolio_score = 0
    /\ result.analysis.cultural_score = Scale

\* the run C4 fails on: no profile in the store and job requirements whose
\* experience_level is None; three stages record an error and the state ends
\* with the last one only
C4_FailingRun ==
    /\ run_kind = "analysis" /\ pc = "done"
    /\ state.job_requirements = [BaseRequirements EXCEPT !.experience_level = PyNone]
    /\ errors =
        << [step |-> "load_profile", error |-> "Candidate profile not found"],
           [step |-> "analyze_experience",
            error |-> "'NoneType' object has no attribute 'lower'"],
           [step |-> "assess_cultural_fit",
            error |-> "'NoneType' object has no attribute 'lower'"] >>
    /\ state.error_message = "'NoneType' object has no attribute 'lower'"

\* C13: a stage does not modify the state value it receives: after the stage
\* has run, the object that was passed in is as it was before the call
C13_StageLeavesInputUnchanged ==
    received # NoData => received.after = received.before

\* the call C13 fails on: load_candidate_profile on a fresh MatchingState, with
\* a profile in the store; after the call the object passed in holds the profile
C13_FailingCall ==
    /\ run_kind = "matching"
    /\ received # NoData
    /\ received.node = "load_profile"
    /\ received.before = MatchingState("c1", DefaultMinMatchScore, DefaultMaxMatches)
    /\ received.after.candidate_profile = BaseCandidate
    /\ received.after = state

\* the notify stage had a match request to send and the transport failed it
SendFailed ==
    /\ run_kind = "matching" /\ "notify_finder" \in Range(steps)
    /\ state.matches # <<>> /\ sent = <<>>

\* C15: a failure of an external capability inside a stage is recorded in the
\* run's error state: when the send of the notify stage fails at the
\* transport, the state afterwards carries an error entry for it
C15_SendFailureRecorded ==
    SendFailed =>
        /\ state.error_message # ""
        /\ \E e \in Range(errors) : e.step = "notify_finder"

\* the run C15 fails on: a profile, a search that returned j1, a transport
\* that fails the publish; the run ends with one match and no error anywhere
C15_FailingRun ==
    /\ SendFailed /\ pc = "done"
    /\ state.candidate_profile = BaseCandidate
    /\ Len(state.available_jobs) = 1 /\ state.available_jobs[1].id = "j1"
    /\ result.success /\ result.total_matches = 1
    /\ state.error_message = "" /\ errors = <<>>

\* the stages of the pipeline that is running
StagesOfRun == IF run_kind = "matching" THEN MatchingStages ELSE AnalysisStages

\* C16: the completion flag of a run is false until the final stage has run
\* and true once the final stage has completed, in both pipelines
C16_CompletionTracked ==
    run_kind # "idle" =>
        /\ Len(steps) < Len(StagesOfRun) => ~state.is_complete
        /\ steps = StagesOfRun => state.is_complete

\* the run C16 fails on: a matching run that ran all four stages, sent its
\* match request and returned two matches, with the flag still false
C16_FailingRun ==
    /\ run_kind = "matching" /\ pc = "done"
    /\ steps = MatchingStages
    /\ result.success /\ result.total_matches = 2 /\ Len(sent) = 1
    /\ errors = <<>>
    /\ ~state.is_complete

\* the analysis half of C16 taken alone: the final stage of an analysis run
\* sets the flag
C16_AnalysisCompletes ==
    (run_kind = "analysis" /\ steps = AnalysisStages) => state.is_complete

\* the portfolio stage of an analysis run ended normally
PortfolioAnalysed ==
    /\ run_kind = "analysis"
    /\ ~state.portfolio_analysis.empty
    /\ state.candidate_profile.portfolio_links.kind = "list"
    /\ Len(tool_responses) = Len(state.candidate_profile.portfolio_links.s)

\* the links of the run that were analysed: a LinkedIn link, or a GitHub or
\* resume link whose tool call succeeded
AnalysedLinks ==
    LET links == state.candidate_profile.portfolio_links.s
    IN  { i \in DOMAIN links :
            \/ links[i].platform = "linkedin"
            \/ /\ links[i].platform \in {"github", "resume"}
               /\ tool_responses[i].kind = "success" }

\* the score of the analysed link i
LinkScore(i) ==
    LET link == state.candidate_profile.portfolio_links.s[i]
    IN  CASE link.platform = "github" ->
                calculate_github_score(tool_responses[i].result)
          [] link.platform = "resume" ->
                calculate_resume_score(tool_responses[i].result)
          [] OTHER -> Hundredths(70)

RECURSIVE SumOfLinkScores(_)
SumOfLinkScores(indices) ==
    IF indices = {} THEN 0
    ELSE LET i == CHOOSE x \in indices : TRUE
         IN  LinkScore(i) + SumOfLinkScores(indices \ {i})

\* C23: the overall portfolio score is the arithmetic mean of the scores of
\* the k links that were analysed, links of the same kind included
C23_PortfolioMeanOverLinks ==
    (PortfolioAnalysed /\ AnalysedLinks # {}) =>
        Cardinality(AnalysedLinks) * state.portfolio_analysis.overall_portfolio_score
            = SumOfLinkScores(AnalysedLinks)

\* a run with two GitHub links, both analysed with different scores, and no
\* other analysed link: the overall score is the second link's score
C23_FailingRun ==
    /\ PortfolioAnalysed
    /\ AnalysedLinks = {1, 2}
    /\ state.candidate_profile.portfolio_links.s[1].platform = "github"
    /\ state.candidate_profile.portfolio_links.s[2].platform = "github"
    /\ LinkScore(1) # LinkScore(2)
    /\ state.portfolio_analysis.overall_portfolio_score = LinkScore(2)
    /\ result # NoData

\* with at most one analysed link of each kind the mean is over the links
C23_MeanOverDistinctKinds ==
    (/\ PortfolioAnalysed
     /\ AnalysedLinks # {}
     /\ \A i, k \in AnalysedLinks :
            i # k => state.candidate_profile.portfolio_links.s[i].platform
                        # state.candidate_profile.portfolio_links.s[k].platform)
        => C23_PortfolioMeanOverLinks

\* the final stage of an analysis run has written its result
FinalAssessed ==
    /\ run_kind = "analysis"
    /\ ~state.analysis_results.empty

\* the score an intermediate analysis contributes: 0.0 when the analysis was
\* left empty by a failed stage
SubScore(analysis, key) == IF analysis.empty THEN 0 ELSE analysis[key]

\* C24: the final aggregate equals 0.35*skill + 0.25*experience
\* + 0.25*portfolio + 0.15*cultural and lies in [0,1], also when a failed
\* stage left its analysis empty
C24_FinalAggregate ==
    FinalAssessed =>
        LET skill == SubScore(state.skills_analysis, "overall_skill_score")
            experience == SubScore(state.experience_analysis, "experience_fit_score")
            portfolio == SubScore(state.portfolio_analysis, "overall_portfolio_score")
            cultural == SubScore(state.cultural_fit_analysis, "cultural_fit_score")
        IN  /\ 100 * state.analysis_results.overall_score
                  = 35 * skill + 25 * experience + 25 * portfolio + 15 * cultural
            /\ 0 <= state.analysis_results.overall_score
            /\ state.analysis_results.overall_score <= Scale

\* a run in which the skills stage failed and left its analysis empty, and
\* the final stage still produced an aggregate above 0
C24_Witness ==
    /\ FinalAssessed
    /\ state.skills_analysis.empty
    /\ ~state.cultural_fit_analysis.empty
    /\ \E i \in DOMAIN errors : errors[i].step = "analyze_skills"
    /\ state.analysis_results.overall_score > 0
    /\ result # NoData

\* a run with no failed stage whose aggregate is at least 0.85
C24_HighAggregate ==
    /\ FinalAssessed
    /\ errors = <<>>
    /\ state.analysis_results.overall_score >= Hundredths(85)

\* a step of the notify stage of a matching run
NotifyStep ==
    /\ run_kind = "matching" /\ pc = "notify_finder"
    /\ steps' = Append(steps, "notify_finder")

\* the stage did nothing: no message, no error, the state as it was
NotifyNoOp ==
    /\ sent' = sent
    /\ errors' = errors
    /\ state' = state

\* the stage sent one match request to the candidate finder and nothing else
NotifyOneRequest ==
    /\ Len(sent') = Len(sent) + 1
    /\ SubSeq(sent', 1, Len(sent)) = sent
    /\ sent'[Len(sent')].message_type = MessageTypeValue["MATCH_REQUEST"]
    /\ sent'[Len(sent')].receiver_id = "candidate_finder_agent"

\* C27: without matches the notify stage sends nothing, records no error and
\* returns the state unchanged; with at least one match it sends exactly one
\* match request addressed to the candidate finder agent
C27_NotifyNoOpOrOneRequest ==
    [][NotifyStep =>
          IF state.matches = <<>> THEN NotifyNoOp ELSE NotifyOneRequest]_vars

\* the run C27 fails on: two matches, all four stages run, and nothing on the
\* transport and no error after the notify stage
C27_FailingRun ==
    /\ run_kind = "matching" /\ pc = "done"
    /\ steps = MatchingStages
    /\ Len(state.matches) = 2
    /\ sent = <<>>
    /\ state.error_message = ""
    /\ \A i \in DOMAIN errors : errors[i].step # "notify_finder"

\* the first half of C27 taken alone, and at most one request otherwise
C27_NoOpWithoutMatches ==
    [][NotifyStep =>
          IF state.matches = <<>> THEN NotifyNoOp
          ELSE NotifyOneRequest \/ sent' = sent]_vars

\* a run whose search found nothing went through the notify stage
C27_EmptySearchRun ==
    /\ run_kind = "matching" /\ steps = MatchingStages
    /\ state.candidate_profile = BaseCandidate
    /\ state.available_jobs = <<>> /\ state.matches = <<>>
    /\ sent = <<>> /\ errors = <<>>

-----------------------------------------------------------------------------
(* Claims about concurrent runs *)

\* the final state of run r had it run alone: the four stages applied in turn
\* to its own initial state, with the answers the external calls gave it
AloneState(r) ==
    LET s0 == MatchingState(Subject(r), DefaultMinMatchScore,
                            runs[r].state.max_matches)
        s1 == load_candidate_profile(s0, runs[r].doc).state
        s2 == search_available_jobs(s1, runs[r].found).state
        s3 == process_job_matches(s2).state
    IN  notify_candidate_finder(s3, "job_finder_agent", ProtoTime,
                                runs[r].transport_ok).out.state

AloneResult(r) ==
    [success |-> TRUE, matches |-> AloneState(r).matches,
     total_matches |-> Len(AloneState(r).matches)]

RunsEndAsAlone ==
    \A r \in Runs :
        runs[r].pc = "done" =>
            /\ runs[r].state = AloneState(r)
            /\ runs[r].state.candidate_id = Subject(r)
            /\ runs[r].result = AloneResult(r)

StepTouchesOneRun ==
    \A r \in Runs :
        runs'[r] # runs[r] => \A o \in Runs \ {r} : runs'[o] = runs[o]

\* C14: two runs for different subjects that interleave at their awaits do not
\* interfere: each ends in the state and result it reaches when run alone, and
\* no step of one run changes the other run
C14_RunsIndependent == []RunsEndAsAlone /\ [][StepTouchesOneRun]_vars

\* both runs ended, each ran steps while the other was under way, and they
\* ended with different, non-empty match lists
C14_Witness ==
    /\ runs # <<>>
    /\ \A r \in Runs : runs[r].pc = "done" /\ runs[r].overlapped
    /\ runs["r1"].result.matches # <<>> /\ runs["r2"].result.matches # <<>>
    /\ runs["r1"].result.matches # runs["r2"].result.matches
    /\ Len(sent) = 2

-----------------------------------------------------------------------------
(* Claims about the Scoring Engine *)

\* C10: for every candidate profile and job profile (empty skill sets, missing
\* fields, out-of-range years, unparsable salary text included) the aggregate
\* match score lies in [0,1], and the default weights 0.4, 0.3, 0.2, 0.1 sum
\* to exactly 1.0.
C10_ScoreInUnitInterval ==
    /\ SkillsWeight + ExperienceWeight + LocationWeight + SalaryWeight = WeightUnit
    /\ sc_ret # NoData => (0 <= sc_ret.match_score /\ sc_ret.match_score <= Scale)

\* a call whose skills_match is longer than the job's skill set, so that the
\* weighted sum exceeds 1 before the clamp, returned 1.0
C10_Witness ==
    /\ sc_ret # NoData
    /\ sc_call.via = "_calculate_match_score"
    /\ Len(sc_call.skills_match) = MaxMatchLen
    /\ sc_call.job_data.skills = PyList(<<"python">>)
    /\ sc_call.candidate_profile.experience_years = PyInt(-2)
    /\ sc_ret.match_score = Scale

\* the aggregate of the four factors of a call under the weights w
WeightedAggregate(call, skills_match, w) ==
    LET f == match_factors(call.candidate_profile, call.job_data, skills_match)
    IN  clamp((f.skills_score * w.required_skills_weight
               + f.exp_score * w.experience_weight
               + f.location_score * w.location_weight
               + f.salary_score * w.salary_weight) \div WeightUnit)

AnalyzeReturned == sc_ret # NoData /\ sc_call.via = "analyze_job_match"

\* the call scored its inputs without an exception
ScoredWithoutError ==
    ~match_factors(sc_call.candidate_profile, sc_call.job_data,
                   sc_ret.skills_match).raises

\* C11: the aggregate is computed with the four weights carried by the run's
\* state; 0.4/0.3/0.2/0.1 are used only when the caller supplied none
C11_UsesRunWeights ==
    (AnalyzeReturned /\ ScoredWithoutError) =>
        sc_ret.match_score =
            WeightedAggregate(sc_call, sc_ret.skills_match, sc_call.weights)

\* the call C11 fails on: a state with weights 0.7/0.1/0.1/0.1, candidate
\* {python, django} with 4 years in NY, job {python, django, aws}, mid, nyc:
\* the score is 49/60 (the default weights), not 43/60
C11_FailingCall ==
    /\ AnalyzeReturned
    /\ sc_call.weights = Weights(7, 1, 1, 1)
    /\ sc_call.candidate_profile =
          CandidateProfile(PyList(<<"python", "django">>), PyInt(4),
                           PyStr(Str_NY), PyMissing, PyMissing)
    /\ sc_call.job_data = BaseJob
    /\ sc_ret.match_score * 60 = 49 * Scale
    /\ WeightedAggregate(sc_call, sc_ret.skills_match, sc_call.weights) * 60
          = 43 * Scale

\* Scenario A: candidate skills {python, django} and 4 years, job skills
\* {python, django, aws} in the mid band, the same city string on both sides,
\* no salary data on either side
ScenarioA ==
    /\ AnalyzeReturned
    /\ sc_call.candidate_profile.skills = PyList(<<"python", "django">>)
    /\ sc_call.candidate_profile.experience_years = PyInt(4)
    /\ sc_call.job_data.skills = PyList(<<"python", "django", "aws">>)
    /\ sc_call.job_data.experience_level = PyStr(Str_mid)
    /\ sc_call.candidate_profile.location.kind = "str"
    /\ sc_call.candidate_profile.location = sc_call.job_data.location
    /\ sc_call.candidate_profile.salary_expectation = PyMissing
    /\ sc_call.job_data.salary_range = PyMissing

\* score, rounded to four decimals, is d / 10000
RoundsTo(score, d) ==
    /\ (2 * d - 1) * Scale <= 20000 * score
    /\ 20000 * score < (2 * d + 1) * Scale

\* C17 as stated: in Scenario A the aggregate score is 0.7167
C17_ScenarioA_Stated == ScenarioA => RoundsTo(sc_ret.match_score, 7167)

\* C17, amended: in Scenario A the factors are 2/3, 1.0, 1.0 and 0.5 and the
\* aggregate score is 0.4*2/3 + 0.3 + 0.2 + 0.05 = 49/60, 0.8167 to four decimals
C17_ScenarioA ==
    ScenarioA =>
        LET f == match_factors(sc_call.candidate_profile, sc_call.job_data,
                               sc_ret.skills_match)
        IN  /\ 3 * f.skills_score = 2 * Scale
            /\ f.exp_score = Scale
            /\ f.location_score = Scale
            /\ 2 * f.salary_score = Scale
            /\ 60 * sc_ret.match_score = 49 * Scale
            /\ RoundsTo(sc_ret.match_score, 8167)

\* a Scenario A call (both cities "SF") that returned 49/60
C17_Witness ==
    /\ ScenarioA
    /\ sc_call.candidate_profile.location = PyStr(Str_SF)
    /\ sc_call.job_data.remote_friendly = PyBool(FALSE)
    /\ 60 * sc_ret.match_score = 49 * Scale

\* the skill sets of the call, when both skill values are lists
CallSkills(call) ==
    [candidate |-> Range(get(call.candidate_profile.skills, PyList(<<>>)).s),
     job |-> Range(get(call.job_data.skills, PyList(<<>>)).s)]

SkillsAreLists(call) ==
    /\ get(call.candidate_profile.skills, PyList(<<>>)).kind = "list"
    /\ get(call.job_data.skills, PyList(<<>>)).kind = "list"

\* C18: the skill factor is (job skills the candidate has) / (job skills) for
\* a non-empty job skill set and 0.0, without an error, for an empty one; the
\* missing-skill list is exactly the job skills the candidate lacks
C18_SkillFactor ==
    (AnalyzeReturned /\ SkillsAreLists(sc_call)) =>
        LET sk == CallSkills(sc_call)
            f == match_factors(sc_call.candidate_profile, sc_call.job_data,
                               sc_ret.skills_match)
            factor == IF sk.job = {} THEN 0
                      ELSE (Cardinality(sk.candidate \cap sk.job) * Scale)
                           \div Cardinality(sk.job)
        IN  /\ f.skills_score = factor
            /\ Range(sc_ret.skills_match) = sk.candidate \cap sk.job
            /\ Range(sc_ret.missing_skills) = sk.job \ sk.candidate
            /\ Len(sc_ret.missing_skills) = Cardinality(sk.job \ sk.candidate)
            /\ ~f.raises =>
                  sc_ret.match_score =
                      clamp((factor * SkillsWeight + f.exp_score * ExperienceWeight
                             + f.location_score * LocationWeight
                             + f.salary_score * SalaryWeight) \div WeightUnit)

\* Scenario B: a job with an empty skill list, scored without an error: the
\* skill factor is 0 and the aggregate is 0.3 + 0.2 + 0.05
C18_Witness ==
    /\ AnalyzeReturned
    /\ sc_call.job_data = [BaseJob EXCEPT !.skills = PyList(<<>>)]
    /\ sc_call.candidate_profile =
          CandidateProfile(PyList(<<"python", "django">>), PyInt(4),
                           PyStr(Str_NY), PyMissing, PyMissing)
    /\ sc_ret.missing_skills = <<>>
    /\ sc_ret.match_score = Hundredths(55)

\* a skill name in lower case, for the names the calls use
LowerSkill(skill) == IF skill = "Python" THEN "python" ELSE skill

LowerSkills(skills) == { LowerSkill(k) : k \in skills }

\* C19: skills are compared case-normalized: a candidate skill and a job skill
\* that differ only in letter case are one skill; they count in the matching
\* skills and the skill factor and are not in the missing-skill list
C19_CaseNormalizedSkills ==
    (AnalyzeReturned /\ SkillsAreLists(sc_call)) =>
        LET sk == CallSkills(sc_call)
            common == LowerSkills(sk.candidate) \cap LowerSkills(sk.job)
            f == match_factors(sc_call.candidate_profile, sc_call.job_data,
                               sc_ret.skills_match)
        IN  /\ LowerSkills(Range(sc_ret.skills_match)) = common
            /\ LowerSkills(Range(sc_ret.missing_skills))
                  = LowerSkills(sk.job) \ LowerSkills(sk.candidate)
            /\ sk.job # {} =>
                  f.skills_score * Cardinality(LowerSkills(sk.job))
                      = Cardinality(common) * Scale

\* the call C19 fails on: candidate skills [Python, aws] against job skills
\* [python, django, aws]: only aws matches, python is reported missing and the
\* skill factor is 1/3
C19_FailingCall ==
    /\ AnalyzeReturned
    /\ sc_call.candidate_profile.skills = PyList(<<"Python", "aws">>)
    /\ sc_call.job_data.skills = PyList(<<"python", "django", "aws">>)
    /\ sc_ret.skills_match = <<"aws">>
    /\ Range(sc_ret.missing_skills) = {"python", "django"}
    /\ 3 * match_factors(sc_call.candidate_profile, sc_call.job_data,
                         sc_ret.skills_match).skills_score = Scale

\* the inclusive year range of a band, as C20 lists them
BandRange(band) ==
    CASE band \in {Str_entry, Str_junior} -> [min |-> 0, max |-> 2]
      [] band = Str_mid -> [min |-> 3, max |-> 5]
      [] band = Str_senior -> [min |-> 5, max |-> 8]
      [] band = Str_lead -> [min |-> 8, max |-> 12]
      [] band = Str_principal -> [min |-> 12, max |-> 20]
      [] OTHER -> [min |-> 0, max |-> 5]

\* the factor C20 states for years against a range, in units of 1/Scale
BandFactor(years, range) ==
    IF range.min <= years /\ years <= range.max THEN Scale
    ELSE IF years < range.min
         THEN Max(0, Scale - ((range.min - years) * Scale) \div 5)
         ELSE Max(0, Scale - ((years - range.max) * Scale) \div 5)

\* the call has an int for the years and a str (or nothing) for the band
ExperienceCall ==
    /\ sc_ret # NoData
    /\ get(sc_call.candidate_profile.experience_years, PyInt(0)).kind = "int"
    /\ get(sc_call.job_data.experience_level, PyStr(<<>>)).kind = "str"

\* C20: with the band mapped to its inclusive year range, the experience
\* factor is 1.0 within the range and falls by 1/5 per year of distance below
\* the minimum or above the maximum, down to 0
C20_ExperienceFactor ==
    ExperienceCall =>
        LET years == get(sc_call.candidate_profile.experience_years, PyInt(0)).n
            band == lower(get(sc_call.job_data.experience_level, PyStr(<<>>)).s)
            f == match_factors(sc_call.candidate_profile, sc_call.job_data,
                               sc_ret.skills_match)
        IN  /\ f.exp_score = BandFactor(years, BandRange(band))
            /\ ~f.raises =>
                  sc_ret.match_score =
                      clamp((f.skills_score * SkillsWeight
                             + BandFactor(years, BandRange(band)) * ExperienceWeight
                             + f.location_score * LocationWeight
                             + f.salary_score * SalaryWeight) \div WeightUnit)

\* Scenario C: 1 year against the senior band gives the factor 0.2
C20_Witness ==
    /\ ExperienceCall
    /\ sc_call.candidate_profile.experience_years = PyInt(1)
    /\ sc_call.job_data.experience_level = PyStr(<<"S", "e", "n", "i", "o", "r">>)
    /\ match_factors(sc_call.candidate_profile, sc_call.job_data,
                     sc_ret.skills_match).exp_score = Hundredths(20)
    /\ sc_ret.match_score > 0

\* the call has a str (or nothing) for both locations
LocationCall ==
    /\ sc_ret # NoData
    /\ get(sc_call.candidate_profile.location, PyStr(<<>>)).kind = "str"
    /\ get(sc_call.job_data.location, PyStr(<<>>)).kind = "str"

\* text b occurs inside text a
Contains(a, b) ==
    \E from \in 1..(Len(a) + 1) :
        /\ from + Len(b) - 1 <= Len(a)
        /\ \A k \in 1..Len(b) : a[from + k - 1] = b[k]

\* the location factor as C21 states it, in units of 1/Scale
StatedLocationFactor ==
    LET cloc == lower(get(sc_call.candidate_profile.location, PyStr(<<>>)).s)
        jloc == lower(get(sc_call.job_data.location, PyStr(<<>>)).s)
    IN  IF Contains(cloc, jloc) \/ Contains(jloc, cloc) THEN Hundredths(100)
        ELSE IF /\ sc_call.candidate_profile.remote_preference = PyBool(TRUE)
                /\ sc_call.job_data.remote_friendly = PyBool(TRUE)
             THEN Hundredths(80)
             ELSE 0

\* C21: the location factor is 1.0 when, ignoring case, one location contains
\* the other, else 0.8 when the candidate prefers remote work and the job is
\* remote-friendly, else 0.0, and the returned score is built from that value
C21_LocationFactor ==
    LocationCall =>
        LET f == match_factors(sc_call.candidate_profile, sc_call.job_data,
                               sc_ret.skills_match)
        IN  /\ f.location_score = StatedLocationFactor
            /\ f.location_score \in {Hundredths(100), Hundredths(80), 0}
            /\ ~f.raises =>
                  sc_ret.match_score =
                      clamp((f.skills_score * SkillsWeight
                             + f.exp_score * ExperienceWeight
                             + StatedLocationFactor * LocationWeight
                             + f.salary_score * SalaryWeight) \div WeightUnit)

\* a returned call where the job's location lies inside the candidate's (SF
\* in SFO) and the factor is 1.0
C21_Witness ==
    /\ LocationCall
    /\ sc_call.candidate_profile.location = PyStr(<<"S", "F", "O">>)
    /\ sc_call.job_data.location = PyStr(Str_SF)
    /\ StatedLocationFactor = Hundredths(100)
    /\ sc_ret.match_score > 0

\* the call has a str (or nothing) for both salaries
SalaryCall ==
    /\ sc_ret # NoData
    /\ get(sc_call.candidate_profile.salary_expectation, PyStr(<<>>)).kind = "str"
    /\ get(sc_call.job_data.salary_range, PyStr(<<>>)).kind = "str"

\* the numeric tokens of the two salary texts of the call
CandidateTokens ==
    FindNumbers(get(sc_call.candidate_profile.salary_expectation, PyStr(<<>>)).s,
                1, -1)

JobTokens ==
    FindNumbers(get(sc_call.job_data.salary_range, PyStr(<<>>)).s, 1, -1)

\* the factor C22 states for candidate average c / d against job average j / d
RatioFactor(c, j) ==
    IF 8 * j <= 10 * c /\ 10 * c <= 12 * j THEN Hundredths(100)
    ELSE IF 6 * j <= 10 * c /\ 10 * c <= 14 * j THEN Hundredths(70)
    ELSE Hundredths(30)

\* C22: the salary factor is 0.5 when either salary text yields no numeric
\* token; otherwise it is 1.0, 0.7 or 0.3 by the band that the ratio of the
\* candidate's average to the job's average falls in
C22_SalaryFactor ==
    SalaryCall =>
        LET f == match_factors(sc_call.candidate_profile, sc_call.job_data,
                               sc_ret.skills_match)
            c == Sum(CandidateTokens) * Len(JobTokens)
            j == Sum(JobTokens) * Len(CandidateTokens)
        IN  IF CandidateTokens = <<>> \/ JobTokens = <<>>
            THEN f.salary_score = Hundredths(50)
            ELSE /\ f.salary_score \in
                        {Hundredths(100), Hundredths(70), Hundredths(30)}
                 /\ j > 0 => f.salary_score = RatioFactor(c, j)

\* a returned call where both texts have a numeric token, the job's average
\* is 0 and the factor is 0.5
C22_FailingCall ==
    /\ SalaryCall
    /\ sc_call.candidate_profile.salary_expectation = PyStr(<<"8", "8">>)
    /\ sc_call.job_data.salary_range = PyStr(<<"0">>)
    /\ CandidateTokens = <<88>>
    /\ JobTokens = <<0>>
    /\ match_factors(sc_call.candidate_profile, sc_call.job_data,
                     sc_ret.skills_match).salary_score = Hundredths(50)

\* the salary bands hold whenever the job's average is above 0
C22_BandsForPositiveJobAverage ==
    (SalaryCall /\ (JobTokens = <<>> \/ Sum(JobTokens) > 0)) => C22_SalaryFactor

-----------------------------------------------------------------------------
(* Claims about dispatch and decoding in the protocol *)

DefaultHandlerNames == {"_handle_heartbeat", "_handle_status", "_handle_error"}

\* the last call decoded its envelope and dispatched the message to one of the
\* default handlers
DispatchedToDefault ==
    /\ proc_result.called
    /\ WellFormedEnvelope(proc_result.input)
    /\ ~NamesOtherAgent(proc_result.input)
    /\ proc_result.handlers_before[EnvelopeType(proc_result.input)]
          \in DefaultHandlerNames

\* the call returned True after invoking that handler once and left the
\* registry as it was; dispatching the decoded message a second time, on the
\* registry the first dispatch left, gives the same
OnceAsTwice ==
    DispatchedToDefault =>
        LET message == from_dict(proc_result.input).message
            first == CatchAll(Dispatch(proc_result.handlers_before, message))
            second == CatchAll(Dispatch(first.handlers, message))
        IN  /\ proc_result.ret = TRUE /\ ~proc_result.raised
            /\ Len(proc_result.invoked) = 1
            /\ proc_result.invoked[1] \in DefaultHandlerNames
            /\ message_handlers = proc_result.handlers_before
            /\ first.ret = TRUE /\ second.ret = TRUE
            /\ second.invoked = first.invoked
            /\ second.handlers = proc_result.handlers_before
            /\ sent = <<>>

\* a call of process_message changes neither the agent's identity nor the
\* registry nor what was sent when it dispatches to a default handler
DefaultDispatchFrame ==
    (proc_result' # proc_result /\ DispatchedToDefault')
        => (/\ agent_id' = agent_id
            /\ message_handlers' = message_handlers
            /\ sent' = sent)

\* C25: dispatching the same decoded message twice to an agent whose handler
\* for its type is a default heartbeat/status/error handler returns True both
\* times and leaves registry, identity and outbound messages as one dispatch
C25_DefaultHandlersIdempotent ==
    []OnceAsTwice /\ [][DefaultDispatchFrame]_vars

\* a status message addressed to this agent was dispatched to the default
\* status handler while another type has a handler of the owning agent
C25_Witness ==
    /\ DispatchedToDefault
    /\ proc_result.input.receiver_id = agent_id
    /\ proc_result.invoked = <<"_handle_status">>
    /\ \E t \in MessageType : message_handlers[t] \in UserHandlers
    /\ proc_result.ret = TRUE

-----------------------------------------------------------------------------
(* Claims about the sending side *)

\* what the call put on the transport
PublishedByCall == SubSeq(sent, Len(send_call.sent_before) + 1, Len(sent))

\* the canonical map form of the argument of a send_message call
CanonicalForm(message) == IF HasToDict(message) THEN to_dict(message) ELSE message

\* a send_message call publishes the canonical map once and returns True when
\* the transport accepts it, and returns False exactly when the transport fails
SendReachesTransport ==
    (send_call # NoData /\ send_call.op = "send_message") =>
        /\ send_ret \in BOOLEAN
        /\ send_ret = send_call.transport_ok
        /\ send_call.transport_ok =>
              PublishedByCall = <<CanonicalForm(send_call.argument)>>
        /\ ~send_call.transport_ok => PublishedByCall = <<>>

\* a broadcast publishes an envelope without receiver, a directed helper one
\* with the given receiver; the sender is this agent
HelpersAddress ==
    (send_call # NoData /\ send_call.op # "send_message") =>
        /\ send_ret = send_call.transport_ok
        /\ Len(PublishedByCall) = (IF send_call.transport_ok THEN 1 ELSE 0)
        /\ \A i \in DOMAIN PublishedByCall :
              /\ PublishedByCall[i].sender_id = agent_id
              /\ PublishedByCall[i].receiver_id = send_call.receiver_id
              /\ send_call.op = "broadcast_message"
                    => PublishedByCall[i].receiver_id = None

\* C26: send_message hands every message to the transport: it publishes the
\* canonical map once and returns True, and returns False without raising
\* exactly when the transport call fails; broadcasts carry no receiver and
\* directed sends carry the given receiver, with this agent as sender
C26_EveryMessageReachesTransport == SendReachesTransport /\ HelpersAddress

\* the call of test_agent_communication: a plain dict, a transport that
\* accepts everything; the call returned False and published nothing
C26_FailingCall ==
    /\ send_call # NoData
    /\ send_call.op = "send_message"
    /\ send_call.argument = PlainDict
    /\ send_call.transport_ok
    /\ send_ret = FALSE
    /\ PublishedByCall = <<>>

\* for Message objects the statement holds
C26_MessageObjectsReachTransport ==
    (send_call # NoData /\ send_call.op = "send_message"
        => HasToDict(send_call.argument))
    => C26_EveryMessageReachesTransport

\* the map handed to the last process_message call is as it was before the call
EnvelopeUnchanged ==
    proc_result.called => message_data = proc_result.input

\* a step that processes again the map object of the call before, with the
\* registry as that call left it, returns what that call returned
RedeliveryRepeats ==
    (/\ proc_result.called /\ proc_result'.called
     /\ proc_result'.input = message_data
     /\ proc_result'.handlers_before = proc_result.handlers_before)
        => proc_result'.ret = proc_result.ret

\* C28: Message.from_dict and process_message leave the map passed to them
\* unchanged, so processing the same raw envelope map a second time decodes
\* again and returns the same result as the first time
C28_DecodingLeavesEnvelope ==
    []EnvelopeUnchanged /\ [][RedeliveryRepeats]_vars

\* a status envelope for this agent, handled by the default handler the first
\* time, was processed a second time as the same map object: its type is the
\* enum member and its timestamp the datetime that the first decoding wrote,
\* and the call returned False without invoking the handler
C28_FailingRedelivery ==
    /\ proc_result.called
    /\ proc_result.input.message_type = "AGENT_STATUS"
    /\ proc_result.input.timestamp = ProtoTime
    /\ proc_result.input.receiver_id = agent_id
    /\ proc_result.handlers_before["AGENT_STATUS"] = "_handle_status"
    /\ proc_result.ret = FALSE
    /\ proc_result.invoked = <<>>

\* the first processing of an envelope as the transport delivered it, with
\* text for the type and the timestamp, returned True
C28_FirstDelivery ==
    /\ proc_result.called
    /\ proc_result.input.message_type = MessageTypeValue["AGENT_STATUS"]
    /\ proc_result.input.timestamp = isoformat(ProtoTime)
    /\ proc_result.input.receiver_id = agent_id
    /\ proc_result.ret = TRUE
    /\ message_data.timestamp = ProtoTime
    /\ message_data.message_type = "AGENT_STATUS"

-----------------------------------------------------------------------------
(* Claims about the preference-collection conversation *)

\* the place of a step in the fixed order
StepIndex(step) ==
    CHOOSE i \in DOMAIN conversation_steps : conversation_steps[i] = step

\* a call of process_answer returned
AnswerProcessed == cand_call' # cand_call \/ cand_state' # cand_state

\* the call returned within the nesting the interpreter allows, and the step
\* stayed or moved to the immediately following one
StaysOrAdvances ==
    AnswerProcessed =>
        /\ cand_call'.depth \in 1..RecursionLimit
        /\ cand_state'.current_step \in Range(conversation_steps)
        /\ StepIndex(cand_state'.current_step)
              \in {StepIndex(cand_state.current_step),
                   StepIndex(cand_state.current_step) + 1}

\* the flag is set only by a call made in the step finalize_profile, and is
\* never cleared
CompleteOnlyFromFinalize ==
    AnswerProcessed =>
        /\ (cand_state'.is_complete /\ ~cand_state.is_complete)
              => cand_state.current_step = "finalize_profile"
        /\ cand_state.is_complete => cand_state'.is_complete

\* C29: for every sequence of answers, empty and blank ones included, each
\* process_answer call terminates and leaves current_step where it was or on
\* the immediately following step of the fixed order; it never moves
\* backwards, and is_complete becomes true only from finalize_profile
C29_ConversationMovesForward ==
    [][StaysOrAdvances /\ CompleteOnlyFromFinalize]_vars

\* a conversation with a blank name: the blank answer in collect_basic_info
\* nested the call to the limit and left the step where it was, and later
\* answers took the conversation to the end
C29_Witness ==
    /\ cand_state # NoData
    /\ cand_state.is_complete
    /\ cand_state.current_step = "finalize_profile"
    /\ cand_state.error_message # ""
    /\ cand_state.experience_years = 5
    /\ cand_call.before.current_step = "finalize_profile"

\* the call that ran into the limit
C29_BlankNameCall ==
    /\ cand_call # NoData
    /\ cand_call.depth = RecursionLimit
    /\ cand_call.before.current_step = "collect_basic_info"
    /\ cand_state.current_step = "collect_basic_info"
    /\ cand_state.name = <<>>

-----------------------------------------------------------------------------
(* Claims about the application processor *)

\* a call of process_job_matches returned
ApplyReturned == apply_call # NoData

\* the records the last call put on the topic
PublishedByBatch ==
    SubSeq(topic, Len(apply_call.topic_before) + 1, Len(topic))

\* the report of a failed batch: no application created, and an error text
ReportsFailure ==
    /\ apply_ret.applications_created = 0
    /\ "error" \in DOMAIN apply_ret

\* the report counts the job matches given, and the topic received the
\* application of each of them once, in the order given
ReportsEveryMatchPublishedOnce ==
    /\ "error" \notin DOMAIN apply_ret
    /\ apply_ret.applications_created = Len(apply_call.job_matches)
    /\ Len(apply_ret.applications) = Len(apply_call.job_matches)
    /\ Len(PublishedByBatch) = Len(apply_call.job_matches)
    /\ \A i \in DOMAIN PublishedByBatch :
          /\ PublishedByBatch[i].topic = applications_topic
          /\ PublishedByBatch[i].value = apply_ret.applications[i]
          /\ PublishedByBatch[i].value
                = _create_application(apply_call.job_matches[i], "u1",
                                      apply_call.request_id)

\* C30: the report matches what was published: process_job_matches reports
\* applications_created = 0 with an error only if no application of that
\* batch was published to the topic, and otherwise reports the number of job
\* matches given, each published exactly once
C30_ReportMatchesPublished ==
    ApplyReturned =>
        IF ReportsFailure
        THEN PublishedByBatch = <<>>
        ELSE ReportsEveryMatchPublishedOnce

\* a batch of two matches whose second send failed: the first application is
\* on the topic and the report says that none was created
C30_FailingCall ==
    /\ ApplyReturned
    /\ Len(apply_call.job_matches) = 2
    /\ apply_call.fails_at = 2
    /\ ReportsFailure
    /\ apply_ret.error = "KafkaError"
    /\ Len(PublishedByBatch) = 1
    /\ PublishedByBatch[1].value.job_id = "j1"

\* what holds of every call: a report without an error counts the matches
\* given, each published once; a report with an error says 0 and what was
\* published is a prefix of the batch that stops short of its end
C30_ErrorMeansProperPrefix ==
    ApplyReturned =>
        IF ReportsFailure
        THEN /\ Len(PublishedByBatch) < Len(apply_call.job_matches)
                  \/ apply_call.job_matches = <<>>
             /\ \A i \in DOMAIN PublishedByBatch :
                   PublishedByBatch[i].value
                      = _create_application(apply_call.job_matches[i], "u1",
                                            apply_call.request_id)
        ELSE ReportsEveryMatchPublishedOnce

\* a batch that was published whole
C30_WholeBatch ==
    /\ ApplyReturned
    /\ ~ReportsFailure
    /\ apply_ret.applications_created = MaxBatch
    /\ Len(PublishedByBatch) = MaxBatch

====
